---- MODULE Spec2Model ----
(***************************************************************************)
(* Model of PLNDashboard.py: the monthly-column header parser, the period  *)
(* presets, the metric calculator with its threshold filter, the checklist *)
(* normaliser and filter, the joiner and the distribution binner.          *)
(* Text is a sequence of one-character strings; a number that may be       *)
(* missing is a fraction [n, d] with d = 0 standing for NaN.               *)
(***************************************************************************)
EXTENDS Integers, Sequences, FiniteSets, TLC

VARIABLES
    pc,                  \* position of the script in the current run
    colname,             \* header text handed to parse_date_from_colname
    parsed,              \* its result: <<>> for None, <<year, month>> otherwise
    sorted_cols,         \* the chronologically sorted monthly columns
    preset_n,            \* n_months of the last preset button clicked (0: none)
    preset_months_set1,  \* st.session_state["preset_months_set1"]
    preset_months_set2,  \* st.session_state["preset_months_set2"]
    raw_value,           \* argument of normalize_value_for_compare
    norm_value,          \* its result
    sheet_lbkb,          \* the remote survey sheet: rows [IDPEL, vals]
    df_lbkb,             \* the survey table as fetched and normalised
    selected_cats,       \* checklist categories selected for filtering
    nilai_pilihan_map,   \* category -> selected option labels
    df_lbkb_filtered,    \* the Checklist Filter output
    analysis_mode,       \* the active analysis mode
    operator,            \* "<=", ">=" or "=="
    threshold,           \* threshold in percent, a fraction
    tol,                 \* tolerance of "==" in percent, a fraction
    id_input,            \* the optional customer-ID text filter
    df_cons,             \* the consumption table: rows [IDPEL, cells]
    months_set1,         \* Period 1 columns
    months_set2,         \* Period 2 columns
    df,                  \* the working table of the Metric Calculator
    df_filtered,         \* the Threshold Filter output
    df_merged,           \* the final result
    df_plot,             \* the result rows with their Quarter bucket
    quarter_counts,      \* the four bucket counts, <<>> when there are none
    header,              \* column names of the consumption sheet
    header_lbkb,         \* columns of the survey sheet: [name, field]
    keywords,            \* keywords_list handed to find_column_by_keywords
    col_found,           \* its result: <<>> for None
    found_cols_map,      \* category -> column name found in the survey header
    messages,            \* warnings and errors shown in the current run
    remote,              \* spreadsheet -> its worksheet (header, rows) and history sheet
    sess,                \* browser session -> its position and locals in "Tambah Data"
    events,              \* the remote reads and writes of row 1, in order
    cache,               \* st.cache_data: request -> cached value and its time
    now,                 \* the clock, in ticks
    fetch_result,        \* the value the last fetch returned
    analysis_mode_locked,  \* st.session_state["analysis_mode_locked"]
    analysis_mode_choice,  \* st.session_state["analysis_mode_choice"]
    radio                \* the value of the radio "Pilih mode analisis:"

vars == <<pc, colname, parsed, sorted_cols, preset_n,
          preset_months_set1, preset_months_set2, raw_value, norm_value,
          sheet_lbkb, df_lbkb, selected_cats, nilai_pilihan_map,
          df_lbkb_filtered, analysis_mode, operator, threshold, tol, id_input,
          df_cons, months_set1, months_set2, df, df_filtered, df_merged,
          df_plot, quarter_counts, header, header_lbkb, keywords, col_found,
          found_cols_map, messages, remote, sess, events, cache, now, fetch_result,
          analysis_mode_locked, analysis_mode_choice, radio>>

parseVars == <<colname, parsed>>
presetVars == <<sorted_cols, preset_n, preset_months_set1, preset_months_set2>>
normVars == <<raw_value, norm_value>>
lbkbVars == <<sheet_lbkb, df_lbkb, selected_cats, nilai_pilihan_map,
              df_lbkb_filtered>>
paramVars == <<analysis_mode, operator, threshold, tol, id_input, df_cons,
               months_set1, months_set2>>
metricVars == <<df, df_filtered>>
resultVars == <<df_merged, df_plot, quarter_counts>>
sheetVars == <<header, header_lbkb>>
findVars == <<keywords, col_found>>
logVars == <<found_cols_map, messages>>
editVars == <<remote, sess, events>>
cacheVars == <<cache, now, fetch_result>>
lockVars == <<analysis_mode_locked, analysis_mode_choice, radio>>
appVars == <<editVars, cacheVars, lockVars>>

----------------------------------------------------------------------------
(* Characters and character classes of the regular expressions.            *)

Digits == {"0", "1", "2", "3", "4", "5", "6", "7", "8", "9"}

LowerLetters == {"a", "b", "c", "d", "e", "f", "g", "h", "i", "j", "k", "l", "m",
                 "n", "o", "p", "q", "r", "s", "t", "u", "v", "w", "x", "y", "z"}

UpperLetters == {"A", "B", "C", "D", "E", "F", "G", "H", "I", "J", "K", "L", "M",
                 "N", "O", "P", "Q", "R", "S", "T", "U", "V", "W", "X", "Y", "Z"}

Spaces == {" "}

DateSeps == {"-", "_", "/"}

DigitVal(ch) ==
    CASE ch = "0" -> 0 [] ch = "1" -> 1 [] ch = "2" -> 2 [] ch = "3" -> 3
      [] ch = "4" -> 4 [] ch = "5" -> 5 [] ch = "6" -> 6 [] ch = "7" -> 7
      [] ch = "8" -> 8 [] ch = "9" -> 9 [] OTHER -> 0

LowerOf(ch) ==
    CASE ch = "A" -> "a" [] ch = "B" -> "b" [] ch = "C" -> "c" [] ch = "D" -> "d"
      [] ch = "E" -> "e" [] ch = "F" -> "f" [] ch = "G" -> "g" [] ch = "H" -> "h"
      [] ch = "I" -> "i" [] ch = "J" -> "j" [] ch = "K" -> "k" [] ch = "L" -> "l"
      [] ch = "M" -> "m" [] ch = "N" -> "n" [] ch = "O" -> "o" [] ch = "P" -> "p"
      [] ch = "Q" -> "q" [] ch = "R" -> "r" [] ch = "S" -> "s" [] ch = "T" -> "t"
      [] ch = "U" -> "u" [] ch = "V" -> "v" [] ch = "W" -> "w" [] ch = "X" -> "x"
      [] ch = "Y" -> "y" [] ch = "Z" -> "z" [] OTHER -> ch

Lower(s) == [i \in 1..Len(s) |-> LowerOf(s[i])]

UpperOf(ch) ==
    CASE ch = "a" -> "A" [] ch = "b" -> "B" [] ch = "c" -> "C" [] ch = "d" -> "D"
      [] ch = "e" -> "E" [] ch = "f" -> "F" [] ch = "g" -> "G" [] ch = "h" -> "H"
      [] ch = "i" -> "I" [] ch = "j" -> "J" [] ch = "k" -> "K" [] ch = "l" -> "L"
      [] ch = "m" -> "M" [] ch = "n" -> "N" [] ch = "o" -> "O" [] ch = "p" -> "P"
      [] ch = "q" -> "Q" [] ch = "r" -> "R" [] ch = "s" -> "S" [] ch = "t" -> "T"
      [] ch = "u" -> "U" [] ch = "v" -> "V" [] ch = "w" -> "W" [] ch = "x" -> "X"
      [] ch = "y" -> "Y" [] ch = "z" -> "Z" [] OTHER -> ch

Upper(s) == [i \in 1..Len(s) |-> UpperOf(s[i])]

\* the character at position i, "" past either end
At(s, i) == IF i \in 1..Len(s) THEN s[i] ELSE ""

\* str.strip(): drop leading and trailing whitespace
RECURSIVE Strip(_)
Strip(s) ==
    IF s = <<>> THEN s
    ELSE IF Head(s) \in Spaces THEN Strip(Tail(s))
    ELSE IF s[Len(s)] \in Spaces THEN Strip(SubSeq(s, 1, Len(s) - 1))
    ELSE s

\* length of the longest run of characters of class cls starting at i
RECURSIVE Run(_, _, _)
Run(s, i, cls) == IF At(s, i) \in cls THEN 1 + Run(s, i + 1, cls) ELSE 0

\* the least element of a non-empty set of integers
MinOf(S) == CHOOSE v \in S : \A u \in S : v <= u

\* True when s has t as a contiguous substring (Python's `t in s`)
Contains(s, t) ==
    \E i \in 1..(Len(s) - Len(t) + 1) : SubSeq(s, i, i + Len(t) - 1) = t

----------------------------------------------------------------------------
(* parse_date_from_colname: four re.search patterns tried in order.  Each  *)
(* search takes the leftmost start and, from it, the first match in the    *)
(* backtracking order of the pattern (greedy repeats longest first,        *)
(* alternatives left to right).                                             *)

NoDate == <<>>

\* 20\d{2} at position i
YearAt(s, i) ==
    /\ At(s, i) = "2"
    /\ At(s, i + 1) = "0"
    /\ At(s, i + 2) \in Digits
    /\ At(s, i + 3) \in Digits

YearVal(s, i) == 2000 + 10 * DigitVal(At(s, i + 2)) + DigitVal(At(s, i + 3))

\* The alternatives of (0?[1-9]|1[0-2]) that match at i, in the order the
\* regex engine tries them, each as <<length, month>>.
MonthAlts(s, i) ==
    (IF At(s, i) = "0" /\ At(s, i + 1) \in (Digits \ {"0"})
        THEN << <<2, DigitVal(At(s, i + 1))>> >> ELSE <<>>)
    \o (IF At(s, i) \in (Digits \ {"0"})
        THEN << <<1, DigitVal(At(s, i))>> >> ELSE <<>>)
    \o (IF At(s, i) = "1" /\ At(s, i + 1) \in {"0", "1", "2"}
        THEN << <<2, 10 + DigitVal(At(s, i + 1))>> >> ELSE <<>>)

\* The ways \s*[-_/]?\s* can be matched from j, as <<a, sep, b>>: a spaces,
\* sep separators (0 or 1), b spaces.
GapWays(s, j) ==
    {w \in (0..Len(s)) \X {0, 1} \X (0..Len(s)) :
        /\ w[1] <= Run(s, j, Spaces)
        /\ w[2] = 1 => At(s, j + w[1]) \in DateSeps
        /\ w[3] <= Run(s, j + w[1] + w[2], Spaces)}

GapEnd(j, w) == j + w[1] + w[2] + w[3]

\* backtracking order of the gap: longer first repeat, then the separator
\* taken before skipped, then longer second repeat
GapBefore(w, u) ==
    \/ w[1] > u[1]
    \/ w[1] = u[1] /\ w[2] > u[2]
    \/ w[1] = u[1] /\ w[2] = u[2] /\ w[3] >= u[3]

FirstGap(W) == CHOOSE w \in W : \A u \in W : GapBefore(w, u)

\* (?P<y>20\d{2})\s*[-_/]?\s*(?P<m>0?[1-9]|1[0-2]) anchored at i
YearFirstAt(s, i) ==
    IF ~YearAt(s, i) THEN NoDate
    ELSE LET ok == {w \in GapWays(s, i + 4) : MonthAlts(s, GapEnd(i + 4, w)) # <<>>}
         IN  IF ok = {} THEN NoDate
             ELSE <<YearVal(s, i), MonthAlts(s, GapEnd(i + 4, FirstGap(ok)))[1][2]>>

\* (?P<m>0?[1-9]|1[0-2])\s*[-_/]?\s*(?P<y>20\d{2}) anchored at i
RECURSIVE MonthFirstTry(_, _, _, _)
MonthFirstTry(s, i, alts, k) ==
    IF k > Len(alts) THEN NoDate
    ELSE LET j  == i + alts[k][1]
             ok == {w \in GapWays(s, j) : YearAt(s, GapEnd(j, w))}
         IN  IF ok = {} THEN MonthFirstTry(s, i, alts, k + 1)
             ELSE <<YearVal(s, GapEnd(j, FirstGap(ok))), alts[k][2]>>

MonthFirstAt(s, i) == MonthFirstTry(s, i, MonthAlts(s, i), 1)

\* (20\d{2})(0[1-9]|1[0-2]) anchored at i
CompactAt(s, i) ==
    IF ~YearAt(s, i) THEN NoDate
    ELSE IF At(s, i + 4) = "0" /\ At(s, i + 5) \in (Digits \ {"0"})
        THEN <<YearVal(s, i), DigitVal(At(s, i + 5))>>
    ELSE IF At(s, i + 4) = "1" /\ At(s, i + 5) \in {"0", "1", "2"}
        THEN <<YearVal(s, i), 10 + DigitVal(At(s, i + 5))>>
    ELSE NoDate

\* calendar.month_abbr, lowercased (index = month number)
MonthAbbr ==
    << <<"j","a","n">>, <<"f","e","b">>, <<"m","a","r">>, <<"a","p","r">>,
       <<"m","a","y">>, <<"j","u","n">>, <<"j","u","l">>, <<"a","u","g">>,
       <<"s","e","p">>, <<"o","c","t">>, <<"n","o","v">>, <<"d","e","c">> >>

\* calendar.month_name, lowercased
MonthName ==
    << <<"j","a","n","u","a","r","y">>, <<"f","e","b","r","u","a","r","y">>,
       <<"m","a","r","c","h">>, <<"a","p","r","i","l">>, <<"m","a","y">>,
       <<"j","u","n","e">>, <<"j","u","l","y">>, <<"a","u","g","u","s","t">>,
       <<"s","e","p","t","e","m","b","e","r">>, <<"o","c","t","o","b","e","r">>,
       <<"n","o","v","e","m","b","e","r">>, <<"d","e","c","e","m","b","e","r">> >>

StartsWith(k, p) == Len(p) <= Len(k) /\ SubSeq(k, 1, Len(p)) = p

\* the month a captured word stands for, 0 when none (mm is None)
MonthOfWord(mon) ==
    LET monraw == Lower(mon)
        pre    == SubSeq(monraw, 1, 3)
        byAbbr == {v \in 1..12 : StartsWith(MonthAbbr[v], pre)}
        byName == {v \in 1..12 : StartsWith(MonthName[v], monraw)}
    IN  IF byAbbr # {} THEN MinOf(byAbbr)
        ELSE IF byName # {} THEN MinOf(byName)
        ELSE 0

\* (?P<mon>[A-Za-z]{3,9})[^\d]*(?P<y>20\d{2}) anchored at i: the lengths of
\* the word and of the non-digit run that let the year match, longest first.
NameWays(s, i) ==
    {w \in (3..9) \X (0..Len(s)) :
        /\ w[1] <= Run(s, i, LowerLetters \cup UpperLetters)
        /\ \A q \in (i + w[1])..(i + w[1] + w[2] - 1) :
              q <= Len(s) /\ s[q] \notin Digits
        /\ YearAt(s, i + w[1] + w[2])}

FirstNameWay(W) ==
    CHOOSE w \in W : \A u \in W : w[1] > u[1] \/ (w[1] = u[1] /\ w[2] >= u[2])

\* <<matched, result>> of the month-name pattern anchored at i
MonthNameAt(s, i) ==
    LET W == NameWays(s, i)
    IN  IF W = {} THEN <<FALSE, NoDate>>
        ELSE LET w  == FirstNameWay(W)
                 mm == MonthOfWord(SubSeq(s, i, i + w[1] - 1))
                 y  == YearVal(s, i + w[1] + w[2])
             IN  <<TRUE, IF mm > 0 THEN <<y, mm>> ELSE NoDate>>

\* re.search: the match at the leftmost start position, NoDate when none
SearchYearFirst(s) ==
    LET hits == {i \in 1..Len(s) : YearFirstAt(s, i) # NoDate}
    IN  IF hits = {} THEN NoDate ELSE YearFirstAt(s, MinOf(hits))

SearchMonthFirst(s) ==
    LET hits == {i \in 1..Len(s) : MonthFirstAt(s, i) # NoDate}
    IN  IF hits = {} THEN NoDate ELSE MonthFirstAt(s, MinOf(hits))

SearchCompact(s) ==
    LET hits == {i \in 1..Len(s) : CompactAt(s, i) # NoDate}
    IN  IF hits = {} THEN NoDate ELSE CompactAt(s, MinOf(hits))

SearchMonthName(s) ==
    LET hits == {i \in 1..Len(s) : MonthNameAt(s, i)[1]}
    IN  IF hits = {} THEN <<FALSE, NoDate>> ELSE MonthNameAt(s, MinOf(hits))

parse_date_from_colname(name) ==
    LET c  == Strip(name)
        m1 == SearchYearFirst(c)
        m2 == SearchMonthFirst(c)
        m3 == SearchCompact(c)
        m4 == SearchMonthName(c)
    IN  IF m1 # NoDate THEN m1
        ELSE IF m2 # NoDate THEN m2
        ELSE IF m3 # NoDate THEN m3
        ELSE m4[2]

----------------------------------------------------------------------------
(* Checklist Normalizer: normalize_value_for_compare.                       *)

\* a missing value (NaN / None), distinct from every text
NA == <<"<NA>">>

\* \w of the regular expressions
WordChars == LowerLetters \cup UpperLetters \cup Digits \cup {"_"}

\* re.sub(r'[^a-z0-9\s]', ' ', s)
BlankOthers(s) ==
    [i \in 1..Len(s) |->
        IF s[i] \in LowerLetters \cup Digits \cup Spaces THEN s[i] ELSE " "]

\* re.sub(r'\bfrom\b', to, s) from position i on: every standalone
\* occurrence, scanning left to right
RECURSIVE SubWordFrom(_, _, _, _)
SubWordFrom(s, i, from, to) ==
    IF i > Len(s) THEN <<>>
    ELSE IF /\ i + Len(from) - 1 <= Len(s)
            /\ SubSeq(s, i, i + Len(from) - 1) = from
            /\ At(s, i - 1) \notin WordChars
            /\ At(s, i + Len(from)) \notin WordChars
        THEN to \o SubWordFrom(s, i + Len(from), from, to)
    ELSE <<s[i]>> \o SubWordFrom(s, i + 1, from, to)

SubWord(s, from, to) == SubWordFrom(s, 1, from, to)

\* re.sub(r'\s+', ' ', s)
RECURSIVE CollapseSpaces(_)
CollapseSpaces(s) ==
    IF s = <<>> THEN <<>>
    ELSE IF Head(s) \in Spaces
        THEN <<" ">> \o CollapseSpaces(SubSeq(s, 1 + Run(s, 1, Spaces), Len(s)))
    ELSE <<Head(s)>> \o CollapseSpaces(Tail(s))

TxtTdk     == <<"t", "d", "k">>
TxtT       == <<"t">>
TxtY       == <<"y">>
TxtYes     == <<"y", "e", "s">>
TxtNo      == <<"n", "o">>
TxtYa      == <<"y", "a">>
TxtTidak   == <<"t", "i", "d", "a", "k">>
TxtSesuai  == <<"s", "e", "s", "u", "a", "i">>
TxtTerawat == <<"t", "e", "r", "a", "w", "a", "t">>
TxtTidakSesuai  == TxtTidak \o <<" ">> \o TxtSesuai
TxtTidakTerawat == TxtTidak \o <<" ">> \o TxtTerawat

\* the cleaning and token replacement that precede the rule chain
CleanValue(v) ==
    LET s0 == Lower(Strip(v))
        s1 == BlankOthers(s0)
        s2 == SubWord(s1, TxtTdk, TxtTidak)
        s3 == SubWord(s2, TxtT, TxtTidak)
        s4 == SubWord(s3, TxtY, TxtYa)
        s5 == SubWord(s4, TxtYes, TxtYa)
        s6 == SubWord(s5, TxtNo, TxtTidak)
    IN  Strip(CollapseSpaces(s6))

\* the rule chain with the two "tidak" rules in the opposite order
RuleChainSwapped(s) ==
    IF Contains(s, TxtTidak) /\ Contains(s, TxtTerawat) THEN TxtTidakTerawat
    ELSE IF Contains(s, TxtTidak) /\ Contains(s, TxtSesuai) THEN TxtTidakSesuai
    ELSE IF Contains(s, TxtSesuai) THEN TxtSesuai
    ELSE IF Contains(s, TxtTerawat) THEN TxtTerawat
    ELSE s

\* the if-chain on the cleaned text
RuleChain(s) ==
    IF Contains(s, TxtTidak) /\ Contains(s, TxtSesuai) THEN TxtTidakSesuai
    ELSE IF Contains(s, TxtTidak) /\ Contains(s, TxtTerawat) THEN TxtTidakTerawat
    ELSE IF Contains(s, TxtSesuai) THEN TxtSesuai
    ELSE IF Contains(s, TxtTerawat) THEN TxtTerawat
    ELSE IF s \in {TxtYa, TxtTidak} THEN s
    ELSE s

normalize_value_for_compare(v) ==
    IF v = NA THEN <<>> ELSE RuleChain(CleanValue(v))

----------------------------------------------------------------------------
(* Numbers.  A float column value is a fraction [n, d] in lowest terms     *)
(* with d > 0; d = 0 stands for the non-finite values: NaN (n = 0), +inf   *)
(* (n = 1) and -inf (n = -1).  Arithmetic is exact.                         *)

Abs(a) == IF a < 0 THEN -a ELSE a

RECURSIVE GCD(_, _)
GCD(a, b) == IF b = 0 THEN a ELSE GCD(b, a % b)

NaN    == [n |-> 0, d |-> 0]
PosInf == [n |-> 1, d |-> 0]
NegInf == [n |-> -1, d |-> 0]

\* the fraction a / b for b # 0
Frac(a, b) ==
    LET g == GCD(Abs(a), Abs(b))
    IN  IF b > 0 THEN [n |-> a \div g, d |-> b \div g]
        ELSE [n |-> (-a) \div g, d |-> (-b) \div g]

IsFinite(x) == x.d > 0
NotNA(x) == x # NaN

FSub(x, y) ==
    IF ~IsFinite(x) \/ ~IsFinite(y) THEN NaN
    ELSE Frac(x.n * y.d - y.n * x.d, x.d * y.d)

FAdd(x, y) ==
    IF ~IsFinite(x) \/ ~IsFinite(y) THEN NaN
    ELSE Frac(x.n * y.d + y.n * x.d, x.d * y.d)

FMul(x, y) ==
    IF IsFinite(x) /\ IsFinite(y) THEN Frac(x.n * y.n, x.d * y.d)
    ELSE IF x = NaN \/ y = NaN \/ x.n = 0 \/ y.n = 0 THEN NaN
    ELSE IF (x.n > 0) = (y.n > 0) THEN PosInf ELSE NegInf

\* float division: x / 0 is +inf, -inf or NaN
FDiv(x, y) ==
    IF x = NaN \/ y = NaN THEN NaN
    ELSE IF ~IsFinite(x) \/ ~IsFinite(y) THEN NaN
    ELSE IF y.n = 0
        THEN (IF x.n > 0 THEN PosInf ELSE IF x.n < 0 THEN NegInf ELSE NaN)
    ELSE Frac(x.n * y.d, x.d * y.n)

FAbs(x) == [x EXCEPT !.n = Abs(x.n)]

\* a / b <= c / d for b, d > 0, by comparing integer parts and then the
\* reciprocals of the fractional parts (no large products)
RECURSIVE LeqRatio(_, _, _, _)
LeqRatio(a, b, c, d) ==
    IF (a \div b) # (c \div d) THEN (a \div b) < (c \div d)
    ELSE IF a % b = 0 THEN TRUE
    ELSE IF c % d = 0 THEN FALSE
    ELSE LeqRatio(d, c % d, b, a % b)

\* x <= y on floats: False whenever a NaN is involved
FLeq(x, y) ==
    IF x = NaN \/ y = NaN THEN FALSE
    ELSE IF x = NegInf \/ y = PosInf THEN TRUE
    ELSE IF x = PosInf \/ y = NegInf THEN FALSE
    ELSE LeqRatio(x.n, x.d, y.n, y.d)

FLess(x, y) == FLeq(x, y) /\ x # y

\* the value of a run of decimal digits
RECURSIVE DigitsVal(_)
DigitsVal(s) ==
    IF s = <<>> THEN 0
    ELSE 10 * DigitsVal(SubSeq(s, 1, Len(s) - 1)) + DigitVal(s[Len(s)])

RECURSIVE Pow10(_)
Pow10(k) == IF k = 0 THEN 1 ELSE 10 * Pow10(k - 1)

\* pd.to_numeric(errors='coerce') on one cell: an optionally signed decimal
\* number, NaN for a missing cell and for any other text
ToNumeric(v) ==
    IF v = NA THEN NaN
    ELSE LET t    == Strip(v)
             neg  == At(t, 1) = "-"
             body == IF At(t, 1) \in {"-", "+"} THEN Tail(t) ELSE t
             ip   == Run(body, 1, Digits)
             fp   == IF At(body, ip + 1) = "." THEN Run(body, ip + 2, Digits) ELSE 0
             used == IF At(body, ip + 1) = "." THEN ip + 1 + fp ELSE ip
             mag  == Frac(DigitsVal(SubSeq(body, 1, ip)) * Pow10(fp)
                            + DigitsVal(SubSeq(body, ip + 2, ip + 1 + fp)),
                          Pow10(fp))
         IN  IF ip + fp = 0 \/ used # Len(body) THEN NaN
             ELSE IF neg THEN Frac(-mag.n, mag.d) ELSE mag

----------------------------------------------------------------------------
(* Metric Calculator and Threshold Filter.                                  *)

ModePenurunan == "Penurunan saja"
ModeLbkb      == "Rumah kosong (LBKB) saja"
ModeBoth      == "Penurunan + Rumah Kosong (LBKB)"

use_lbkb == analysis_mode \in {ModeLbkb, ModeBoth}
use_penurunan == analysis_mode \in {ModePenurunan, ModeBoth}

\* the set of elements of a sequence
Range(q) == {q[k] : k \in 1..Len(q)}

RECURSIVE SumOver(_, _)
SumOver(num, cols) ==
    IF cols = <<>> THEN Frac(0, 1)
    ELSE LET v == num[Head(cols)]
         IN  FAdd(IF IsFinite(v) THEN v ELSE Frac(0, 1), SumOver(num, Tail(cols)))

\* a row mean that counts a missing cell as 0
RowMeanZeroFill(num, cols) ==
    IF cols = <<>> THEN NaN
    ELSE FDiv(SumOver(num, cols), Frac(Len(cols), 1))

\* df[cols].mean(axis=1, skipna=True) for one row
RowMean(num, cols) ==
    LET present == SelectSeq(cols, LAMBDA c : IsFinite(num[c]))
    IN  IF present = <<>> THEN NaN
        ELSE FDiv(SumOver(num, present), Frac(Len(present), 1))

\* the percentage without the replace(0, pd.NA) guard
PctChangeUnguarded(avg1, avg2) ==
    FMul(FDiv(FSub(avg1, avg2), avg1), Frac(100, 1))

\* (avg1 - avg2) / avg1.replace(0, pd.NA) * 100
PctChange(avg1, avg2) ==
    LET den == IF IsFinite(avg1) /\ avg1.n = 0 THEN NaN ELSE avg1
    IN  FMul(FDiv(FSub(avg1, avg2), den), Frac(100, 1))

\* one row of df after the coercion and the three added columns
MetricRow(i) ==
    LET r    == df_cons[i]
        sel  == Range(months_set1) \cup Range(months_set2)
        num  == [c \in DOMAIN r.cells |->
                    IF c \in sel THEN ToNumeric(r.cells[c]) ELSE r.cells[c]]
        avg1 == RowMean(num, months_set1)
        avg2 == RowMean(num, months_set2)
    IN  [idx |-> i, IDPEL |-> r.IDPEL, cells |-> num,
         Rata2_Periode1 |-> avg1, Rata2_Periode2 |-> avg2,
         Selisih_Rata2 |-> PctChange(avg1, avg2)]

\* the drop without the test Selisih_Rata2 >= 0
KeepsRowNotNA(r) == NotNA(r.Selisih_Rata2)

\* df["Selisih_Rata2"].notna() & (df["Selisih_Rata2"] >= 0)
KeepsRow(r) ==
    /\ NotNA(r.Selisih_Rata2)
    /\ FLeq(Frac(0, 1), r.Selisih_Rata2)

\* rtol of np.isclose, which the call leaves at its default 1e-05
IscloseRtolInv == 100000

\* np.isclose with no relative tolerance
IsCloseAbsOnly(a, b, atol) == FLeq(FAbs(FSub(a, b)), atol)

\* np.isclose(a, b, atol=atol): |a - b| <= atol + rtol * |b|
IsClose(a, b, atol) ==
    FLeq(FAbs(FSub(a, b)), FAdd(atol, FMul(Frac(1, IscloseRtolInv), FAbs(b))))

\* the threshold test with strict comparisons
PassesThresholdStrict(x, op, thr, atol) ==
    IF op = "<=" THEN FLess(x, thr)
    ELSE IF op = ">=" THEN FLess(thr, x)
    ELSE IsClose(x, thr, atol)

\* the comparison of the Threshold Filter for one percentage
PassesThreshold(x, op, thr, atol) ==
    IF op = "<=" THEN FLeq(x, thr)
    ELSE IF op = ">=" THEN FLeq(thr, x)
    ELSE IsClose(x, thr, atol)

----------------------------------------------------------------------------
(* find_column_by_keywords.                                                 *)

\* the result None
NoColumn == <<>>

\* all(k.upper() in up for k in keywords_list)
HasAll(col, keywords_list) ==
    \A k \in 1..Len(keywords_list) : Contains(Upper(col), Upper(keywords_list[k]))

\* sum(1 for k in keywords_list if k.upper() in up)
KeywordCount(col, keywords_list) ==
    Cardinality({k \in 1..Len(keywords_list) :
                    Contains(Upper(col), Upper(keywords_list[k]))})

\* the first loop: the first column holding every keyword, NoColumn if none
RECURSIVE FirstWithAll(_, _)
FirstWithAll(cols, keywords_list) ==
    IF cols = <<>> THEN NoColumn
    ELSE IF HasAll(Head(cols), keywords_list) THEN Head(cols)
    ELSE FirstWithAll(Tail(cols), keywords_list)

\* the second loop: <<best, best_count>> after the columns are visited
RECURSIVE BestFrom(_, _, _, _)
BestFrom(cols, keywords_list, best, best_count) ==
    IF cols = <<>> THEN <<best, best_count>>
    ELSE LET count == KeywordCount(Head(cols), keywords_list)
         IN  IF count > best_count
             THEN BestFrom(Tail(cols), keywords_list, Head(cols), count)
             ELSE BestFrom(Tail(cols), keywords_list, best, best_count)

\* find_column_by_keywords with the last of the columns of largest count
\* taken in the fallback
find_column_last_best(cols, keywords_list) ==
    LET counts == [k \in 1..Len(cols) |-> KeywordCount(cols[k], keywords_list)]
        last == CHOOSE k \in 1..Len(cols) :
                    /\ \A j \in 1..Len(cols) : counts[j] <= counts[k]
                    /\ \A j \in (k + 1)..Len(cols) : counts[j] < counts[k]
    IN  IF \E k \in 1..Len(cols) : HasAll(cols[k], keywords_list)
        THEN FirstWithAll(cols, keywords_list)
        ELSE IF \E k \in 1..Len(cols) : counts[k] > 0 THEN cols[last]
        ELSE NoColumn

find_column_by_keywords(cols, keywords_list) ==
    LET exact == FirstWithAll(cols, keywords_list)
        fallback == BestFrom(cols, keywords_list, NoColumn, 0)
    IN  IF \E k \in 1..Len(cols) : HasAll(cols[k], keywords_list) THEN exact
        ELSE IF fallback[2] > 0 THEN fallback[1]
        ELSE NoColumn

----------------------------------------------------------------------------
(* Checklist Filter.                                                        *)

CatKondisi  == "KONDISI BANGUNAN"
CatAngka    == "ANGKA STAN VS FOTO METER"
CatTerlihat == "TERLIHAT PEMAKAIAN"

OptTerawat      == <<"T","e","r","a","w","a","t">>
OptTidakTerawat == <<"T","i","d","a","k"," ","T","e","r","a","w","a","t">>
OptSesuai       == <<"S","e","s","u","a","i">>
OptTidakSesuai  == <<"T","i","d","a","k"," ","S","e","s","u","a","i">>
OptYa           == <<"Y","a">>
OptTidak        == <<"T","i","d","a","k">>

KwKondisi   == <<"K","O","N","D","I","S","I">>
KwBangun    == <<"B","A","N","G","U","N">>
KwAngka     == <<"A","N","G","K","A">>
KwStan      == <<"S","T","A","N">>
KwFoto      == <<"F","O","T","O">>
KwMeter     == <<"M","E","T","E","R">>
KwTerlihat  == <<"T","E","R","L","I","H","A","T">>
KwPemakaian == <<"P","E","M","A","K","A","I","A","N">>

\* category name, option labels and keywords of lbkb_categories, in order
lbkb_categories ==
    << [cat |-> CatKondisi,  opts |-> {OptTerawat, OptTidakTerawat},
        keywords |-> <<KwKondisi, KwBangun>>],
       [cat |-> CatAngka,    opts |-> {OptSesuai, OptTidakSesuai},
        keywords |-> <<KwAngka, KwStan, KwFoto, KwMeter>>],
       [cat |-> CatTerlihat, opts |-> {OptYa, OptTidak},
        keywords |-> <<KwTerlihat, KwPemakaian>>] >>

cat_names == {lbkb_categories[k].cat : k \in 1..Len(lbkb_categories)}

OptsOf(cat) ==
    lbkb_categories[CHOOSE k \in 1..Len(lbkb_categories) :
                        lbkb_categories[k].cat = cat].opts

KeywordsOf(cat) ==
    lbkb_categories[CHOOSE k \in 1..Len(lbkb_categories) :
                        lbkb_categories[k].cat = cat].keywords

\* astype(str): a missing value becomes the text "nan"
AsStr(v) == IF v = NA THEN <<"n", "a", "n">> ELSE v

\* the column names of a survey header
Names(h) == [k \in 1..Len(h) |-> h[k].name]

\* the data field of the first column of the survey header with this name
FieldOf(h, name) ==
    h[CHOOSE k \in 1..Len(h) :
        h[k].name = name /\ \A j \in 1..(k - 1) : h[j].name # name].field

\* the cell of a survey row in a data field
CellOf(r, field) == IF field = "IDPEL" THEN r.IDPEL ELSE r.vals[field]

TxtID == <<"I", "D">>
ID_COL == <<"I", "D", "P", "E", "L">>

\* [c for c in cols if "ID" in c.upper()]
IdCandidates(cols) == SelectSeq(cols, LAMBDA c : Contains(Upper(c), TxtID))

\* col_found of one category
FoundFor(cat) == find_column_by_keywords(Names(header_lbkb), KeywordsOf(cat))

\* found_cols_map when the loop over the categories ends, or stops at the
\* first selected category without a column
FoundMap ==
    LET all  == [c \in selected_cats |-> FoundFor(c)]
        miss == {k \in 1..Len(lbkb_categories) :
                    /\ lbkb_categories[k].cat \in selected_cats
                    /\ all[lbkb_categories[k].cat] = NoColumn}
        last == IF miss = {} THEN Len(lbkb_categories) ELSE MinOf(miss)
    IN  [c \in {lbkb_categories[k].cat : k \in 1..last} \cap selected_cats |->
            all[c]]

\* one fetched row: the ID column, when the header has one, and the columns
\* of the selected categories, each lowercased and stripped, with its _norm
\* column
LbkbRow(i, cats, found, id_name) ==
    LET r == sheet_lbkb[i]
        lowered == [c \in cats |->
                       Lower(Strip(AsStr(CellOf(r, FieldOf(header_lbkb, found[c])))))]
        norm == [c \in cats |-> normalize_value_for_compare(lowered[c])]
    IN  IF id_name = NoColumn
        THEN [idx |-> i, vals |-> lowered, norm |-> norm]
        ELSE [idx |-> i, IDPEL |-> CellOf(r, FieldOf(header_lbkb, id_name)),
              vals |-> lowered, norm |-> norm]

\* the mask that keeps a row as soon as one selected category accepts it
MaskAny(r, cats, nilai) ==
    \/ cats = {}
    \/ \E c \in cats :
        LET map_sel == {normalize_value_for_compare(v) : v \in nilai[c]}
        IN  map_sel = {} \/ r.norm[c] \in map_sel

\* the mask computed with the option labels compared as they are typed
MaskRaw(r, cats, nilai) ==
    \A c \in cats : nilai[c] = {} \/ r.norm[c] \in nilai[c]

\* the mask of one row: every selected category with a non-empty selection
\* must hold a normalised value among the normalised selected labels
Mask(r, cats, nilai) ==
    \A c \in cats :
        LET map_sel == {normalize_value_for_compare(v) : v \in nilai[c]}
        IN  map_sel = {} \/ r.norm[c] \in map_sel

----------------------------------------------------------------------------
(* Messages of a run.                                                       *)

WarnPeriods     == "warning: Pilih setidaknya 1 kolom untuk Periode 1 dan Periode 2."
InfoIdCons      == "info: Kolom 'IDPEL' tidak ditemukan, menggunakan kandidat"
ErrIdCons       == "error: Kolom IDPEL tidak ditemukan di sheet konsumsi."
ErrMissingCols  == "error: Kolom terpilih tidak ditemukan di sheet"
ErrCatColumn    == "error: Tidak menemukan kolom LBKB untuk kategori"
InfoNoLbkbCols  == "info: Tidak ada kolom LBKB yang akan diambil"
InfoIdLbkb      == "info: Menggunakan kolom sebagai IDPEL di LBKB"
WarnIdLbkb      == "warning: Tidak menemukan kolom ID di LBKB"
WarnNoPenurunan == "warning: Tidak ada data penurunan yang memenuhi kriteria"
WarnNoLbkb      == "warning: Tidak ada data LBKB yang memenuhi kriteria"

----------------------------------------------------------------------------
(* Joiner.                                                                  *)

RECURSIVE Flatten(_)
Flatten(qq) == IF qq = <<>> THEN <<>> ELSE Head(qq) \o Flatten(Tail(qq))

\* the merge with the ID columns compared as they are in the sheets
InnerJoinUntrimmed(left, right) ==
    Flatten([i \in 1..Len(left) |->
        LET l == left[i]
            key == AsStr(l.IDPEL)
            hits == SelectSeq(right, LAMBDA r : AsStr(r.IDPEL) = key)
        IN  [j \in 1..Len(hits) |->
                [idx |-> l.idx, IDPEL |-> key, cells |-> l.cells,
                 Rata2_Periode1 |-> l.Rata2_Periode1,
                 Rata2_Periode2 |-> l.Rata2_Periode2,
                 Selisih_Rata2 |-> l.Selisih_Rata2,
                 vals |-> hits[j].vals]]])

\* pd.merge(left, right[[ID_COL] + found columns], on=ID_COL, how="inner")
\* after both ID columns are cast to text and stripped
InnerJoin(left, right) ==
    Flatten([i \in 1..Len(left) |->
        LET l == left[i]
            key == Strip(AsStr(l.IDPEL))
            hits == SelectSeq(right, LAMBDA r : Strip(AsStr(r.IDPEL)) = key)
        IN  [j \in 1..Len(hits) |->
                [idx |-> l.idx, IDPEL |-> key, cells |-> l.cells,
                 Rata2_Periode1 |-> l.Rata2_Periode1,
                 Rata2_Periode2 |-> l.Rata2_Periode2,
                 Selisih_Rata2 |-> l.Selisih_Rata2,
                 vals |-> hits[j].vals]]])

\* the result before the ID text filter
MergedFor(mode, left, right) ==
    IF mode = ModePenurunan THEN left
    ELSE IF mode = ModeLbkb THEN right
    ELSE IF left # <<>> /\ right # <<>> THEN InnerJoin(left, right)
    ELSE <<>>

\* df_merged[df_merged[ID_COL].astype(str).str.contains(id_input)]
IdFiltered(rows, text) ==
    IF text # <<>> /\ rows # <<>>
    THEN SelectSeq(rows, LAMBDA r : Contains(AsStr(r.IDPEL), text))
    ELSE rows

----------------------------------------------------------------------------
(* Distribution Binner.                                                     *)

\* the 1e-6 added to the top edge
TopEpsInv == 1000000

\* x <= top + 1e-6
LeqTop(x, top) == FLeq(x, top) \/ FLeq(FSub(x, top), Frac(1, TopEpsInv))

\* x < top + 1e-6
LessTop(x, top) == FLeq(x, top) \/ FLess(FSub(x, top), Frac(1, TopEpsInv))

\* f"{x:.2f}": x in hundredths, rounded half to even
Fmt2(x) ==
    LET whole == x.n \div x.d
        rest  == 100 * (x.n % x.d)
        h     == 100 * whole + rest \div x.d
        twice == 2 * (rest % x.d)
    IN  IF twice > x.d \/ (twice = x.d /\ h % 2 = 1) THEN h + 1 ELSE h

\* the cut with every bucket closed at its lower edge and open at its upper
\* edge, the last one closed at both
BucketLeftClosed(x, e, top) ==
    IF FLeq(e[1], x) /\ FLess(x, e[2]) THEN 1
    ELSE IF FLeq(e[2], x) /\ FLess(x, e[3]) THEN 2
    ELSE IF FLeq(e[3], x) /\ FLess(x, e[4]) THEN 3
    ELSE IF FLeq(e[4], x) /\ LeqTop(x, top) THEN 4
    ELSE 0

\* pd.cut(x, bins=[e[1], e[2], e[3], e[4], top + 1e-6], include_lowest=True)
\* for one value: the bucket 1..4, 0 when the value is in none (NaN)
Bucket(x, e, top) ==
    IF FLeq(e[1], x) /\ FLeq(x, e[2]) THEN 1
    ELSE IF FLess(e[2], x) /\ FLeq(x, e[3]) THEN 2
    ELSE IF FLess(e[3], x) /\ FLeq(x, e[4]) THEN 3
    ELSE IF FLess(e[4], x) /\ LeqTop(x, top) THEN 4
    ELSE 0

\* pd.cut raises ValueError when the edges do not increase strictly or the
\* labels are not unique
CutFails(e, top, labels) ==
    \/ ~FLess(e[1], e[2])
    \/ ~FLess(e[2], e[3])
    \/ ~FLess(e[3], e[4])
    \/ ~LessTop(e[4], top)
    \/ Cardinality(Range(labels)) # Len(labels)

\* the largest Selisih_Rata2 of a non-empty table
MaxPct(rows) ==
    LET k == CHOOSE k \in 1..Len(rows) :
                \A j \in 1..Len(rows) : FLeq(rows[j].Selisih_Rata2, rows[k].Selisih_Rata2)
    IN  rows[k].Selisih_Rata2

\* the rows of df_plot with their Quarter
Cut(rows, e, top) ==
    [k \in 1..Len(rows) |->
        [idx |-> rows[k].idx, Selisih_Rata2 |-> rows[k].Selisih_Rata2,
         Quarter |-> Bucket(rows[k].Selisih_Rata2, e, top)]]

\* df_plot["Quarter"].value_counts().sort_index()
CountsOf(plot) ==
    [b \in 1..4 |-> Cardinality({k \in 1..Len(plot) : plot[k].Quarter = b})]

----------------------------------------------------------------------------
(* Header texts the sheets can carry.                                       *)

DigitCh(n) ==
    CASE n = 0 -> "0" [] n = 1 -> "1" [] n = 2 -> "2" [] n = 3 -> "3"
      [] n = 4 -> "4" [] n = 5 -> "5" [] n = 6 -> "6" [] n = 7 -> "7"
      [] n = 8 -> "8" [] OTHER -> "9"

YearText(y) == <<"2", "0", DigitCh((y % 100) \div 10), DigitCh(y % 10)>>

\* a month number written with or without a leading zero
MonthText(m, pad) ==
    IF m >= 10 THEN <<DigitCh(m \div 10), DigitCh(m % 10)>>
    ELSE IF pad THEN <<"0", DigitCh(m)>>
    ELSE <<DigitCh(m)>>

\* English month abbreviation with a capital initial, as in "Nov"
MonthWord(m) ==
    CASE m = 1 -> <<"J","a","n">> [] m = 2 -> <<"F","e","b">>
      [] m = 3 -> <<"M","a","r">> [] m = 4 -> <<"A","p","r">>
      [] m = 5 -> <<"M","a","y">> [] m = 6 -> <<"J","u","n">>
      [] m = 7 -> <<"J","u","l">> [] m = 8 -> <<"A","u","g">>
      [] m = 9 -> <<"S","e","p">> [] m = 10 -> <<"O","c","t">>
      [] m = 11 -> <<"N","o","v">> [] OTHER -> <<"D","e","c">>

REK == <<"R", "E", "K">>

FirstYear == 2023
NumYears == 2
Years == FirstYear..(FirstYear + NumYears - 1)

HeaderGaps == {<<>>, <<"-">>, <<"_">>, <<"/">>, <<" ">>}
HeaderPrefixes == {REK, REK \o <<"_">>}

\* the monthly-column headers the parser is run on
Headers ==
    {px \o YearText(y) \o g \o MonthText(m, pad) :
        px \in HeaderPrefixes, y \in Years, g \in HeaderGaps,
        m \in 1..12, pad \in BOOLEAN}
    \cup
    {px \o MonthText(m, pad) \o g \o YearText(y) :
        px \in HeaderPrefixes, y \in Years, g \in HeaderGaps,
        m \in 1..12, pad \in BOOLEAN}
    \cup
    {px \o MonthWord(m) \o g \o YearText(y) :
        px \in HeaderPrefixes, y \in Years, g \in HeaderGaps, m \in 1..12}
    \cup
    {MonthWord(m) \o g \o YearText(y) \o sx :
        sx \in {REK, <<"_">> \o REK}, y \in Years, g \in HeaderGaps, m \in 1..12}
    \cup {REK, REK \o <<"_">> \o <<"J","u","m","l","a","h">>}

\* the header of the k-th month counted from January of FirstYear, written
\* REK_YYYY-MM
MonthlyHeader(k) ==
    REK \o <<"_">> \o YearText(FirstYear + (k - 1) \div 12) \o <<"-">>
        \o MonthText(((k - 1) % 12) + 1, TRUE)

MaxCols == 26
PresetSizes == {24, 12, 6, 3}

----------------------------------------------------------------------------
(* Survey texts the normaliser is run on.                                   *)

NormTokens ==
    { <<"T","d","k">>, <<"t","d","k">>, <<"T">>, <<"t">>, <<"Y">>,
      <<"Y","e","s">>, <<"n","o">>, <<"T","i","d","a","k">>,
      <<"T","I","D","A","K">>, <<"S","e","s","u","a","i">>,
      <<"S","E","S","U","A","I">>, <<"T","e","r","a","w","a","t">>,
      <<"Y","a">>, <<"d","a","n">>, <<"n","a","n">> }

TokenSeps == { <<" ">>, <<"_">>, <<" ", " ">> }

MaxTokens == 2

\* texts of up to k tokens
RECURSIVE RawTexts(_)
RawTexts(k) ==
    IF k <= 1 THEN NormTokens
    ELSE RawTexts(k - 1)
         \cup {r \o g \o t : r \in RawTexts(k - 1), g \in TokenSeps, t \in NormTokens}

ExTdkSesuai   == <<"T","d","k"," ","S","e","s","u","a","i">>
ExTidakSesuai == <<"T","I","D","A","K"," "," ","S","E","S","U","A","I">>
ExUnderscore  == <<"t","i","d","a","k","_","s","e","s","u","a","i">>
ExBoth        == TxtTidakSesuai \o <<" ","d","a","n"," ">> \o TxtTidakTerawat

RawValues ==
    RawTexts(MaxTokens)
    \cup {NA, <<>>, ExTdkSesuai, ExTidakSesuai, ExUnderscore, ExBoth,
          <<" ">> \o TxtTerawat \o <<".">>, TxtTidak \o TxtSesuai}

----------------------------------------------------------------------------
(* Tables and parameters of an analysis run.                                *)

Col01 == MonthlyHeader(1)
Col06 == MonthlyHeader(6)
Col07 == MonthlyHeader(7)
RekCols == {Col01, Col06, Col07}

\* <<Period 1, Period 2>> selections
PeriodChoices ==
    { << <<Col01>>, <<Col06>> >>,
      << <<Col01, Col07>>, <<Col06>> >>,
      << <<Col01>>, <<Col06, Col07>> >> }

Txt100    == <<"1", "0", "0">>
Txt80     == <<"8", "0">>
Txt0      == <<"0">>
Txt1      == <<"1">>
Txt300000 == <<"3", "0", "0", "0", "0", "0">>
TxtJunk   == <<"x">>

CellTexts == {Txt100, Txt80, Txt0, Txt1, Txt300000, TxtJunk}

IdX == <<"X">>
IdY == <<"Y">>
IdZ == <<"Z">>
IdXPadded == <<" ", "X", " ">>

ConsRow(id, c01, c06, c07) ==
    [IDPEL |-> id, cells |-> (Col01 :> c01) @@ (Col06 :> c06) @@ (Col07 :> c07)]

\* consumption tables with every combination of cells for customer X
ConsTablesCells ==
    { << [IDPEL |-> IdX, cells |-> c], ConsRow(IdY, Txt100, Txt80, Txt80) >> :
        c \in [RekCols -> CellTexts] }

\* a few consumption tables for the runs that vary the survey side
ConsTablesPlain ==
    { << ConsRow(IdXPadded, Txt100, Txt80, NA), ConsRow(IdY, Txt80, Txt100, Txt0) >>,
      << ConsRow(IdX, Txt100, Txt100, Txt1), ConsRow(IdX, Txt100, Txt0, Txt0),
         ConsRow(IdZ, Txt0, Txt80, TxtJunk) >>,
      << >> }

ColNopel    == <<"N","O","P","E","L">>
ColIdPel    == <<"I","D","_","P","E","L">>
ColKondisi  == <<"K","O","N","D","I","S","I"," ","B","A","N","G","U","N","A","N">>
ColAngka    == <<"A","N","G","K","A"," ","S","T","A","N"," ","V","S"," ","F","O","T","O"," ","M","E","T","E","R">>
ColTerlihat == <<"T","E","R","L","I","H","A","T"," ","P","E","M","A","K","A","I","A","N">>

\* df_cons.columns of the consumption tables above
HeaderCons == <<ID_COL, Col01, Col06, Col07>>

\* one column of the survey sheet
SurveyCol(name, field) == [name |-> name, field |-> field]

\* the survey header with every expected column under its usual name
HeaderLbkb ==
    << SurveyCol(ID_COL, "IDPEL"), SurveyCol(ColKondisi, CatKondisi),
       SurveyCol(ColAngka, CatAngka), SurveyCol(ColTerlihat, CatTerlihat) >>

SurveyRow(id, k, a, t) ==
    [IDPEL |-> id,
     vals |-> (CatKondisi :> k) @@ (CatAngka :> a) @@ (CatTerlihat :> t)]

TxtTdkTerawat == <<"T","d","k"," ","T","e","r","a","w","a","t">>

KondisiTexts  == {TxtTdkTerawat, OptTerawat, NA}
AngkaTexts    == {OptTidakSesuai, <<"s","e","s","u","a","i">>}
TerlihatTexts == {<<"Y">>, <<"n","o">>}

SheetDefault ==
    << SurveyRow(IdX, TxtTdkTerawat, OptSesuai, OptYa),
       SurveyRow(IdY, OptTerawat, OptTidakSesuai, <<"T">>) >>

SheetsPlain ==
    { SheetDefault,
      << SurveyRow(IdX, OptTerawat, OptSesuai, OptYa),
         SurveyRow(IdXPadded, TxtTdkTerawat, NA, <<"n","o">>) >>,
      << >> }

AllOptions == [c \in cat_names |-> OptsOf(c)]

\* the selections the two multiselects allow: any set of categories, and
\* for each selected category any set of its options (none for the others)
Selections ==
    { sel \in { <<cats, (CatKondisi :> k) @@ (CatAngka :> a) @@ (CatTerlihat :> t)>> :
                    cats \in SUBSET cat_names,
                    k \in SUBSET OptsOf(CatKondisi),
                    a \in SUBSET OptsOf(CatAngka),
                    t \in SUBSET OptsOf(CatTerlihat) } :
        \A c \in cat_names : c \notin sel[1] => sel[2][c] = {} }

NumLbkbRows == 1

\* survey sheets of NumLbkbRows rows
SurveySheets ==
    { [i \in 1..NumLbkbRows |-> SurveyRow(IF i = 1 THEN IdX ELSE IdY, v[i][1], v[i][2], v[i][3])] :
        v \in [1..NumLbkbRows -> KondisiTexts \X AngkaTexts \X TerlihatTexts] }

Operators == {"<=", ">=", "=="}
Thresholds == {Frac(0, 1), Frac(19, 1), Frac(20, 1), Frac(100, 1)}
Tolerances == {Frac(0, 1), Frac(1, 10)}
DefaultTol == Frac(1, 10)

\* values of the variables a run does not use
NormIdle == raw_value = <<>> /\ norm_value = <<>>

LbkbIdle ==
    /\ sheet_lbkb = <<>>
    /\ df_lbkb = <<>>
    /\ selected_cats = {}
    /\ nilai_pilihan_map = <<>>
    /\ df_lbkb_filtered = <<>>

\* Python's None in the session state
None == "None"

\* the edit path, the fetch cache and the mode lock at rest
AppIdle ==
    /\ remote = <<>>
    /\ sess = <<>>
    /\ events = <<>>
    /\ cache = <<>>
    /\ now = 0
    /\ fetch_result = <<>>
    /\ analysis_mode_locked = FALSE
    /\ analysis_mode_choice = None
    /\ radio = ""

\* the inputs and tables of an analysis run at rest
AnalysisFieldsIdle ==
    /\ operator = ""
    /\ threshold = <<>>
    /\ tol = <<>>
    /\ id_input = <<>>
    /\ df_cons = <<>>
    /\ months_set1 = <<>>
    /\ months_set2 = <<>>
    /\ df = <<>>
    /\ df_filtered = <<>>
    /\ df_merged = <<>>
    /\ df_plot = <<>>
    /\ quarter_counts = <<>>
    /\ header = <<>>
    /\ header_lbkb = <<>>
    /\ keywords = <<>>
    /\ col_found = NoColumn
    /\ found_cols_map = <<>>
    /\ messages = {}

\* everything of an analysis run but the mode
AnalysisRestIdle ==
    /\ AppIdle
    /\ AnalysisFieldsIdle

\* the menu "Analisis Data" at rest
AnalysisMenuIdle ==
    /\ colname = <<>>
    /\ parsed = NoDate
    /\ sorted_cols = <<>>
    /\ preset_n = 0
    /\ preset_months_set1 = <<>>
    /\ preset_months_set2 = <<>>
    /\ raw_value = <<>>
    /\ norm_value = <<>>
    /\ sheet_lbkb = <<>>
    /\ df_lbkb = <<>>
    /\ selected_cats = {}
    /\ nilai_pilihan_map = <<>>
    /\ df_lbkb_filtered = <<>>
    /\ analysis_mode = ""
    /\ AnalysisFieldsIdle

AnalysisIdle ==
    /\ analysis_mode = ""
    /\ AnalysisRestIdle

----------------------------------------------------------------------------
(* Header Inspector run: one header is parsed.                              *)

InitParse ==
    /\ pc = "parse"
    /\ colname \in Headers
    /\ parsed = NoDate
    /\ sorted_cols = <<>>
    /\ preset_n = 0
    /\ preset_months_set1 = <<>>
    /\ preset_months_set2 = <<>>
    /\ NormIdle
    /\ LbkbIdle
    /\ AnalysisIdle

\* dt = parse_date_from_colname(col)
ParseColumn ==
    /\ pc = "parse"
    /\ parsed' = parse_date_from_colname(colname)
    /\ pc' = "parsed"
    /\ UNCHANGED <<colname, presetVars, normVars, lbkbVars, paramVars, appVars, sheetVars,
                   findVars, logVars, metricVars,
                   resultVars>>

NextParse == ParseColumn

SpecParse == InitParse /\ [][NextParse]_vars

----------------------------------------------------------------------------
(* Period Selector presets.                                                 *)

\* apply_preset with the test len(window) < half in place of <=
apply_preset_strict(cols, n_months) ==
    LET window == IF Len(cols) < n_months THEN cols
                  ELSE SubSeq(cols, Len(cols) - n_months + 1, Len(cols))
        half   == n_months \div 2
        split  == IF Len(window) < half THEN Len(window) \div 2 ELSE half
    IN  <<SubSeq(window, 1, split), SubSeq(window, split + 1, Len(window))>>

\* apply_preset that always halves the window
apply_preset_even(cols, n_months) ==
    LET window == IF Len(cols) < n_months THEN cols
                  ELSE SubSeq(cols, Len(cols) - n_months + 1, Len(cols))
        split  == Len(window) \div 2
    IN  <<SubSeq(window, 1, split), SubSeq(window, split + 1, Len(window))>>

\* <<period1, period2>> of apply_preset(n_months) on the sorted columns
apply_preset(cols, n_months) ==
    LET window == IF Len(cols) < n_months THEN cols
                  ELSE SubSeq(cols, Len(cols) - n_months + 1, Len(cols))
        half   == n_months \div 2
        split  == IF Len(window) <= half THEN Len(window) \div 2 ELSE half
    IN  <<SubSeq(window, 1, split), SubSeq(window, split + 1, Len(window))>>

InitPreset ==
    /\ pc = "preset"
    /\ colname = <<>>
    /\ parsed = NoDate
    /\ \E k \in 0..MaxCols : sorted_cols = [i \in 1..k |-> MonthlyHeader(i)]
    /\ preset_n = 0
    /\ preset_months_set1 = <<>>
    /\ preset_months_set2 = <<>>
    /\ NormIdle
    /\ LbkbIdle
    /\ analysis_mode = ModePenurunan
    /\ AnalysisRestIdle

\* a click on one of the buttons "24 bulan", "12 bulan", "6 bulan", "3 bulan",
\* shown when the mode uses the consumption side
ClickPreset(n) ==
    /\ pc = "preset"
    /\ use_penurunan
    /\ preset_n' = n
    /\ preset_months_set1' = apply_preset(sorted_cols, n)[1]
    /\ preset_months_set2' = apply_preset(sorted_cols, n)[2]
    /\ UNCHANGED <<pc, sorted_cols, parseVars, normVars, lbkbVars, paramVars, appVars, sheetVars,
                   findVars, logVars,
                   metricVars, resultVars>>

NextPreset == \E n \in PresetSizes : ClickPreset(n)

SpecPreset == InitPreset /\ [][NextPreset]_vars

----------------------------------------------------------------------------
(* Checklist Normalizer run: one value is normalised.                       *)

InitNorm ==
    /\ pc = "normalize"
    /\ colname = <<>>
    /\ parsed = NoDate
    /\ sorted_cols = <<>>
    /\ preset_n = 0
    /\ preset_months_set1 = <<>>
    /\ preset_months_set2 = <<>>
    /\ raw_value \in RawValues
    /\ norm_value = <<>>
    /\ LbkbIdle
    /\ AnalysisIdle

\* v_norm = normalize_value_for_compare(v)
NormalizeValue ==
    /\ pc = "normalize"
    /\ norm_value' = normalize_value_for_compare(raw_value)
    /\ pc' = "normalized"
    /\ UNCHANGED <<raw_value, parseVars, presetVars, lbkbVars, paramVars, appVars, sheetVars,
                   findVars, logVars,
                   metricVars, resultVars>>

NextNorm == NormalizeValue

SpecNorm == InitNorm /\ [][NextNorm]_vars

----------------------------------------------------------------------------
(* An analysis run: the script from the Metric Calculator to the binner.    *)

\* the tables the script starts from (pd.DataFrame() each)
TablesEmpty ==
    /\ AppIdle
    /\ df_lbkb = <<>>
    /\ df_lbkb_filtered = <<>>
    /\ df = <<>>
    /\ df_filtered = <<>>
    /\ df_merged = <<>>
    /\ df_plot = <<>>
    /\ quarter_counts = <<>>
    /\ found_cols_map = <<>>
    /\ messages = {}

\* the headers fetched for the sides the mode uses
HeadersUsual ==
    /\ header = IF use_penurunan THEN HeaderCons ELSE <<>>
    /\ header_lbkb = IF use_lbkb THEN HeaderLbkb ELSE <<>>

OtherIdle ==
    /\ colname = <<>>
    /\ parsed = NoDate
    /\ sorted_cols = <<>>
    /\ preset_n = 0
    /\ preset_months_set1 = <<>>
    /\ preset_months_set2 = <<>>
    /\ NormIdle
    /\ keywords = <<>>
    /\ col_found = NoColumn

\* the widgets shown only when the mode uses the consumption side
PenurunanParams ==
    IF use_penurunan
    THEN /\ operator \in Operators
         /\ threshold \in Thresholds
         /\ tol \in (IF operator = "==" THEN Tolerances ELSE {DefaultTol})
    ELSE /\ operator = "<="
         /\ threshold = Frac(0, 1)
         /\ tol = DefaultTol

\* runs over every combination of readings of one customer
InitAnalysisCells ==
    /\ analysis_mode \in {ModePenurunan, ModeBoth}
    /\ PenurunanParams
    /\ id_input = <<>>
    /\ df_cons \in ConsTablesCells
    /\ \E pr \in PeriodChoices : months_set1 = pr[1] /\ months_set2 = pr[2]
    /\ IF use_lbkb
       THEN sheet_lbkb = SheetDefault /\ selected_cats = cat_names
            /\ nilai_pilihan_map = AllOptions
       ELSE sheet_lbkb = <<>> /\ selected_cats = {}
            /\ nilai_pilihan_map = [c \in cat_names |-> {}]

\* runs over the modes, the survey sheets and the ID text filter
InitAnalysisJoin ==
    /\ analysis_mode \in {ModePenurunan, ModeLbkb, ModeBoth}
    /\ PenurunanParams
    /\ threshold \in {Frac(0, 1), Frac(20, 1)}
    /\ id_input \in {<<>>, IdX}
    /\ IF use_penurunan
       THEN /\ df_cons \in ConsTablesPlain
            /\ months_set1 = <<Col01>> /\ months_set2 = <<Col06>>
       ELSE df_cons = <<>> /\ months_set1 = <<>> /\ months_set2 = <<>>
    /\ IF use_lbkb
       THEN /\ sheet_lbkb \in SheetsPlain
            /\ \E sel \in { <<cat_names, AllOptions>>,
                            <<{CatKondisi}, [AllOptions EXCEPT ![CatKondisi] = {OptTidakTerawat},
                                                ![CatAngka] = {}, ![CatTerlihat] = {}]>> } :
                  selected_cats = sel[1] /\ nilai_pilihan_map = sel[2]
       ELSE sheet_lbkb = <<>> /\ selected_cats = {}
            /\ nilai_pilihan_map = [c \in cat_names |-> {}]

InitAnalysis ==
    /\ OtherIdle
    /\ raw_value = <<>>
    /\ TablesEmpty
    /\ InitAnalysisCells \/ InitAnalysisJoin
    /\ HeadersUsual
    /\ pc = IF use_penurunan THEN "metrics" ELSE "checklist"

\* lines 705-723: coercion, the two row means and the percentage
ComputeMetrics ==
    /\ pc = "metrics"
    /\ df' = [i \in 1..Len(df_cons) |-> MetricRow(i)]
    /\ pc' = "drop"
    /\ UNCHANGED <<parseVars, presetVars, normVars, lbkbVars, paramVars, appVars, sheetVars,
                   findVars, logVars,
                   df_filtered, resultVars>>

\* line 725: rows with a missing or negative percentage are dropped
DropRows ==
    /\ pc = "drop"
    /\ df' = SelectSeq(df, KeepsRow)
    /\ pc' = "filter"
    /\ UNCHANGED <<parseVars, presetVars, normVars, lbkbVars, paramVars, appVars, sheetVars,
                   findVars, logVars,
                   df_filtered, resultVars>>

\* lines 727-732: the Threshold Filter
ThresholdFilter ==
    /\ pc = "filter"
    /\ df_filtered' = SelectSeq(df,
            LAMBDA r : PassesThreshold(r.Selisih_Rata2, operator, threshold, tol))
    /\ pc' = IF use_lbkb THEN "checklist" ELSE "join"
    /\ UNCHANGED <<parseVars, presetVars, normVars, lbkbVars, paramVars, appVars, sheetVars,
                   findVars, logVars, df,
                   resultVars>>

\* lines 776-840: the columns of the selected categories are looked up, the
\* survey rows are fetched, normalised and masked, and the ID column is
\* looked for
ChecklistFilter ==
    /\ pc = "checklist"
    /\ found_cols_map' = FoundMap
    /\ IF \E c \in DOMAIN found_cols_map' : found_cols_map'[c] = NoColumn
       THEN /\ messages' = messages \cup {ErrCatColumn}
            /\ pc' = "stopped"
            /\ UNCHANGED <<df_lbkb, df_lbkb_filtered>>
       ELSE LET id_cands == IdCandidates(Names(header_lbkb))
                id_name  == IF id_cands = <<>> THEN NoColumn ELSE id_cands[1]
                nothing  == id_cands = <<>> /\ selected_cats = {}
                fetched  == IF nothing THEN <<>>
                            ELSE [i \in 1..Len(sheet_lbkb) |->
                                     LbkbRow(i, selected_cats, found_cols_map', id_name)]
            IN  /\ df_lbkb' = fetched
                /\ df_lbkb_filtered' = SelectSeq(fetched,
                        LAMBDA r : Mask(r, selected_cats, nilai_pilihan_map))
                /\ messages' = messages
                        \cup (IF nothing THEN {InfoNoLbkbCols} ELSE {})
                        \cup (IF fetched # <<>> /\ id_name = NoColumn
                              THEN {WarnIdLbkb} ELSE {})
                        \cup (IF fetched # <<>> /\ id_name \notin {NoColumn, ID_COL}
                              THEN {InfoIdLbkb} ELSE {})
                /\ pc' = "join"
    /\ UNCHANGED <<parseVars, presetVars, normVars, sheet_lbkb, selected_cats,
                   nilai_pilihan_map, paramVars, appVars, sheetVars, findVars,
                   metricVars, resultVars>>

StripIds(rows) ==
    [k \in 1..Len(rows) |-> [rows[k] EXCEPT !.IDPEL = Strip(AsStr(@))]]

\* lines 842-869: the result of the active mode, then the ID text filter; a
\* table without the ID column where one is read ends the run in "error"
JoinResults ==
    /\ pc = "join"
    /\ LET both     == analysis_mode = ModeBoth
           joinable == both /\ df_filtered # <<>> /\ df_lbkb_filtered # <<>>
           no_id    == joinable /\ "IDPEL" \notin DOMAIN df_lbkb_filtered[1]
           merged   == MergedFor(analysis_mode, df_filtered, df_lbkb_filtered)
           no_key   == id_input # <<>> /\ merged # <<>>
                           /\ "IDPEL" \notin DOMAIN merged[1]
       IN  /\ messages' = messages
                   \cup (IF both /\ df_filtered = <<>> THEN {WarnNoPenurunan} ELSE {})
                   \cup (IF both /\ df_lbkb_filtered = <<>> THEN {WarnNoLbkb} ELSE {})
           /\ IF no_id
              THEN /\ df_filtered' = StripIds(df_filtered)
                   /\ pc' = "error"
                   /\ UNCHANGED <<df_lbkb_filtered, df_merged>>
              ELSE /\ IF joinable
                      THEN /\ df_filtered' = StripIds(df_filtered)
                           /\ df_lbkb_filtered' = StripIds(df_lbkb_filtered)
                      ELSE UNCHANGED <<df_filtered, df_lbkb_filtered>>
                   /\ IF no_key
                      THEN df_merged' = merged /\ pc' = "error"
                      ELSE /\ df_merged' = IdFiltered(merged, id_input)
                           /\ pc' = "bin"
    /\ UNCHANGED <<parseVars, presetVars, normVars, sheet_lbkb, df_lbkb,
                   selected_cats, nilai_pilihan_map, paramVars, appVars, sheetVars,
                   findVars, found_cols_map, df, df_plot, quarter_counts>>

\* the edges below the top one, the top value and the labels of the cut,
\* <<>> when no cut is made
CutPlan ==
    IF df_merged = <<>> \/ "Selisih_Rata2" \notin DOMAIN df_merged[1] THEN <<>>
    ELSE IF operator = "<="
        THEN LET quarter == IF threshold.n > 0 THEN FDiv(threshold, Frac(4, 1))
                            ELSE Frac(1, 1)
                 e == <<Frac(0, 1), quarter, FMul(Frac(2, 1), quarter),
                        FMul(Frac(3, 1), quarter)>>
             IN  <<e, threshold,
                   << <<-1, Fmt2(e[2])>>, <<Fmt2(e[2]), Fmt2(e[3])>>,
                      <<Fmt2(e[3]), Fmt2(e[4])>>, <<Fmt2(e[4]), Fmt2(threshold)>> >> >>
    ELSE IF operator = ">="
        THEN LET max_val == MaxPct(df_merged)
                 span    == FSub(max_val, threshold)
                 quarter == FDiv(span, Frac(4, 1))
                 e == <<threshold, FAdd(threshold, quarter),
                        FAdd(threshold, FMul(Frac(2, 1), quarter)),
                        FAdd(threshold, FMul(Frac(3, 1), quarter))>>
             IN  IF FLeq(span, Frac(0, 1)) THEN <<>>
                 ELSE <<e, max_val,
                        << <<Fmt2(e[1]), Fmt2(e[2])>>, <<Fmt2(e[2]), Fmt2(e[3])>>,
                           <<Fmt2(e[3]), Fmt2(e[4])>>, <<Fmt2(e[4]), Fmt2(max_val)>> >> >>
    ELSE <<>>

\* lines 942-981: the Distribution Binner; an exception of pd.cut ends the
\* run in "error"
DistributionBinner ==
    /\ pc = "bin"
    /\ IF CutPlan = <<>>
       THEN pc' = "done" /\ UNCHANGED <<df_plot, quarter_counts>>
       ELSE IF CutFails(CutPlan[1], CutPlan[2], CutPlan[3])
       THEN pc' = "error" /\ UNCHANGED <<df_plot, quarter_counts>>
       ELSE /\ df_plot' = Cut(df_merged, CutPlan[1], CutPlan[2])
            /\ quarter_counts' = CountsOf(Cut(df_merged, CutPlan[1], CutPlan[2]))
            /\ pc' = "done"
    /\ UNCHANGED <<parseVars, presetVars, normVars, lbkbVars, paramVars, appVars, sheetVars,
                   findVars, logVars,
                   metricVars, df_merged>>

NextAnalysis ==
    \/ ComputeMetrics
    \/ DropRows
    \/ ThresholdFilter
    \/ ChecklistFilter
    \/ JoinResults
    \/ DistributionBinner

SpecAnalysis == InitAnalysis /\ [][NextAnalysis]_vars

\* the analysis runs that vary the mode, the survey side and the ID filter
InitJoin ==
    /\ OtherIdle
    /\ raw_value = <<>>
    /\ TablesEmpty
    /\ InitAnalysisJoin
    /\ HeadersUsual
    /\ pc = IF use_penurunan THEN "metrics" ELSE "checklist"

SpecJoin == InitJoin /\ [][NextAnalysis]_vars

----------------------------------------------------------------------------
(* Analysis runs over percentages on and between the bucket edges.          *)

Txt95 == <<"9", "5">>
Txt93 == <<"9", "3">>
Txt90 == <<"9", "0">>
Txt85 == <<"8", "5">>

\* Period 2 readings of a customer whose Period 1 reading is 100: the
\* percentages 0, 5, 7, 10, 15 and 20
BinReadings == {Txt100, Txt95, Txt93, Txt90, Txt85, Txt80}

NumBinRows == 2

BinIds == <<IdX, IdY, IdZ, IdX, IdY, IdZ>>

\* consumption tables of NumBinRows customers
BinTables ==
    { [i \in 1..NumBinRows |-> ConsRow(BinIds[((i - 1) % 6) + 1], Txt100, v[i], NA)] :
        v \in [1..NumBinRows -> BinReadings] }

\* thresholds: zero, one below the two decimals of the labels, and two
\* common ones
BinThresholds == {Frac(0, 1), Frac(1, 250), Frac(20, 1), Frac(100, 1)}

InitBinner ==
    /\ OtherIdle
    /\ raw_value = <<>>
    /\ TablesEmpty
    /\ analysis_mode \in {ModePenurunan, ModeBoth}
    /\ HeadersUsual
    /\ operator \in Operators
    /\ threshold \in BinThresholds
    /\ tol \in (IF operator = "==" THEN Tolerances ELSE {DefaultTol})
    /\ id_input = <<>>
    /\ df_cons \in BinTables
    /\ months_set1 = <<Col01>>
    /\ months_set2 = <<Col06>>
    /\ IF use_lbkb
       THEN sheet_lbkb = SheetDefault /\ selected_cats = cat_names
            /\ nilai_pilihan_map = AllOptions
       ELSE sheet_lbkb = <<>> /\ selected_cats = {}
            /\ nilai_pilihan_map = [c \in cat_names |-> {}]
    /\ pc = "metrics"

SpecBinner == InitBinner /\ [][NextAnalysis]_vars

----------------------------------------------------------------------------
(* A checklist-only run over every survey sheet and every selection.        *)

InitChecklist ==
    /\ OtherIdle
    /\ raw_value = <<>>
    /\ TablesEmpty
    /\ analysis_mode = ModeLbkb
    /\ HeadersUsual
    /\ PenurunanParams
    /\ id_input = <<>>
    /\ df_cons = <<>>
    /\ months_set1 = <<>>
    /\ months_set2 = <<>>
    /\ sheet_lbkb \in SurveySheets
    /\ \E sel \in Selections : selected_cats = sel[1] /\ nilai_pilihan_map = sel[2]
    /\ pc = "checklist"

NextChecklist ==
    \/ ChecklistFilter
    \/ JoinResults
    \/ DistributionBinner

SpecChecklist == InitChecklist /\ [][NextChecklist]_vars

----------------------------------------------------------------------------
(* Header Inspector: the monthly columns are classified and sorted.         *)

\* the sequences of at most n elements of S
SeqsUpTo(S, n) == UNION {[1..k -> S] : k \in 0..n}

\* "REK" in col.upper()
IsRek(col) == Contains(Upper(col), REK)

\* a parsed date is not later than another
DateLeq(a, b) == a[1] < b[1] \/ (a[1] = b[1] /\ a[2] <= b[2])

\* one step of the stable sort: col goes after every column whose date is
\* not later than its own
RECURSIVE InsertByDate(_, _)
InsertByDate(done, col) ==
    IF done = <<>> THEN <<col>>
    ELSE IF DateLeq(parse_date_from_colname(done[Len(done)]),
                    parse_date_from_colname(col))
    THEN Append(done, col)
    ELSE Append(InsertByDate(SubSeq(done, 1, Len(done) - 1), col), done[Len(done)])

\* sorted(parsed, key=lambda x: x[1])
RECURSIVE SortByDate(_)
SortByDate(cols) ==
    IF cols = <<>> THEN <<>>
    ELSE InsertByDate(SortByDate(SubSeq(cols, 1, Len(cols) - 1)), cols[Len(cols)])

\* the monthly columns with the unparsed ones put first
SortedColsUnparsedFirst(cols) ==
    LET all_columns == SelectSeq(cols, IsRek)
        parsed_cols == SelectSeq(all_columns,
                            LAMBDA c : parse_date_from_colname(c) # NoDate)
        unparsed == SelectSeq(all_columns,
                            LAMBDA c : parse_date_from_colname(c) = NoDate)
    IN  unparsed \o SortByDate(parsed_cols)

\* sorted_cols of a non-empty consumption table with these columns
SortedCols(cols) ==
    LET all_columns == SelectSeq(cols, IsRek)
        parsed_cols == SelectSeq(all_columns,
                            LAMBDA c : parse_date_from_colname(c) # NoDate)
        unparsed == SelectSeq(all_columns,
                            LAMBDA c : parse_date_from_colname(c) = NoDate)
    IN  IF parsed_cols # <<>> THEN SortByDate(parsed_cols) \o unparsed
        ELSE all_columns

MaxSortCols == 4

\* column names of a consumption sheet: monthly columns with a date, two of
\* them in the same month, monthly columns without one, and the ID column
SortNames ==
    { MonthlyHeader(2), MonthlyHeader(14),
      <<"r","e","k"," ","0","1","/","2","0","2","4">>, <<"R","E","K"," ","2","/","2","0","2","4">>,
      REK, <<"R","E","K","_","J","u","m","l","a","h">>, ID_COL }

\* the headers of at most MaxSortCols different columns
SortHeaders ==
    {h \in SeqsUpTo(SortNames, MaxSortCols) :
        \A i, j \in 1..Len(h) : i # j => h[i] # h[j]}

\* a consumption row with a reading in every monthly column
FilledRow(h) ==
    [IDPEL |-> IdX, cells |-> [c \in {h[k] : k \in 1..Len(h)} |-> Txt100]]

InitSort ==
    /\ pc = "sort"
    /\ colname = <<>>
    /\ parsed = NoDate
    /\ sorted_cols = <<>>
    /\ preset_n = 0
    /\ preset_months_set1 = <<>>
    /\ preset_months_set2 = <<>>
    /\ NormIdle
    /\ LbkbIdle
    /\ analysis_mode \in {ModePenurunan, ModeLbkb}
    /\ operator = "<="
    /\ threshold = Frac(20, 1)
    /\ tol = DefaultTol
    /\ id_input = <<>>
    /\ IF use_penurunan
       THEN /\ header \in SortHeaders
            /\ df_cons \in {<<>>, <<FilledRow(header)>>}
       ELSE header = <<>> /\ df_cons = <<>>
    /\ months_set1 = <<>>
    /\ months_set2 = <<>>
    /\ TablesEmpty
    /\ header_lbkb = IF use_lbkb THEN HeaderLbkb ELSE <<>>
    /\ keywords = <<>>
    /\ col_found = NoColumn

\* lines 620-638: sorted_cols is built when the consumption side is used
\* and its table has rows
BuildSortedCols ==
    /\ pc = "sort"
    /\ sorted_cols' = IF use_penurunan /\ df_cons # <<>> THEN SortedCols(header)
                      ELSE <<>>
    /\ pc' = "preset"
    /\ UNCHANGED <<parseVars, preset_n, preset_months_set1, preset_months_set2,
                   normVars, lbkbVars, paramVars, appVars, sheetVars, findVars, logVars,
                   metricVars, resultVars>>

NextSort == BuildSortedCols

SpecSort == InitSort /\ [][NextSort]_vars

----------------------------------------------------------------------------
(* A whole interaction: from the fetched sheets to the binner.              *)

\* the sub-lists a multiselect over the options can return
SubLists(cols) ==
    {SelectSeq(cols, LAMBDA c : c \in S) : S \in SUBSET Range(cols)}

\* lines 653-654: the defaults of the two multiselects
default1 ==
    IF preset_months_set1 # <<>> THEN preset_months_set1
    ELSE IF Len(sorted_cols) >= 6 THEN SubSeq(sorted_cols, 1, 6)
    ELSE SubSeq(sorted_cols, 1, Len(sorted_cols) \div 2)

default2 ==
    IF preset_months_set2 # <<>> THEN preset_months_set2
    ELSE IF Len(sorted_cols) >= 12 THEN SubSeq(sorted_cols, 7, 12)
    ELSE SubSeq(sorted_cols, (Len(sorted_cols) \div 2) + 1, Len(sorted_cols))

\* lines 656-682: the multiselects are left at their defaults; without the
\* consumption side both periods are []
KeepDefaultPeriods ==
    /\ pc = "preset"
    /\ months_set1' = IF use_penurunan THEN default1 ELSE <<>>
    /\ months_set2' = IF use_penurunan THEN default2 ELSE <<>>
    /\ pc' = "validate"
    /\ UNCHANGED <<parseVars, presetVars, normVars, lbkbVars, analysis_mode,
                   operator, threshold, tol, id_input, df_cons, appVars, sheetVars,
                   findVars, logVars, metricVars, resultVars>>

\* lines 656-682: the user picks the columns of the two periods
SelectPeriods ==
    /\ pc = "preset"
    /\ use_penurunan
    /\ months_set1' \in SubLists(sorted_cols)
    /\ months_set2' \in SubLists(sorted_cols)
    /\ pc' = "validate"
    /\ UNCHANGED <<parseVars, presetVars, normVars, lbkbVars, analysis_mode,
                   operator, threshold, tol, id_input, df_cons, appVars, sheetVars,
                   findVars, logVars, metricVars, resultVars>>

\* the validation with only Period 1 looked at
ValidatePeriodsFirstOnly ==
    /\ pc = "validate"
    /\ IF use_penurunan /\ months_set1 = <<>>
       THEN messages' = messages \cup {WarnPeriods} /\ pc' = "stopped"
       ELSE messages' = messages /\ pc' = "columns"
    /\ UNCHANGED <<parseVars, presetVars, normVars, lbkbVars, paramVars,
                   appVars, sheetVars, findVars, found_cols_map, metricVars, resultVars>>

\* lines 684-687: st.warning and st.stop() when a period is empty
ValidatePeriods ==
    /\ pc = "validate"
    /\ IF use_penurunan /\ (months_set1 = <<>> \/ months_set2 = <<>>)
       THEN messages' = messages \cup {WarnPeriods} /\ pc' = "stopped"
       ELSE messages' = messages /\ pc' = "columns"
    /\ UNCHANGED <<parseVars, presetVars, normVars, lbkbVars, paramVars,
                   appVars, sheetVars, findVars, found_cols_map, metricVars, resultVars>>

\* lines 507-521: df_cons.columns, the ID candidates and the REK columns of
\* the header, every column when there is neither
ConsColumns ==
    LET used == SelectSeq(header,
                    LAMBDA c : Contains(Upper(c), TxtID) \/ IsRek(c))
    IN  IF used = <<>> THEN header ELSE used

\* lines 689-710: the ID column of the consumption table is looked for and
\* an ID candidate renamed to IDPEL; a selected column that is no longer
\* there stops the run.  The rows of df_cons carry under IDPEL the data of
\* the column used as identifier.
CheckConsColumns ==
    /\ pc = "columns"
    /\ LET candidates == IdCandidates(ConsColumns)
           has_id     == \E k \in 1..Len(ConsColumns) : ConsColumns[k] = ID_COL
           renamed    == IF has_id \/ candidates = <<>> THEN NoColumn
                         ELSE candidates[1]
           missing    == {m \in Range(months_set1) \cup Range(months_set2) :
                             m = renamed}
       IN  IF ~use_penurunan
           THEN messages' = messages /\ pc' = "checklist"
           ELSE IF ~has_id /\ candidates = <<>>
           THEN messages' = messages \cup {ErrIdCons} /\ pc' = "stopped"
           ELSE IF missing # {}
           THEN /\ messages' = messages
                        \cup (IF has_id THEN {} ELSE {InfoIdCons})
                        \cup {ErrMissingCols}
                /\ pc' = "stopped"
           ELSE /\ messages' = messages
                        \cup (IF has_id THEN {} ELSE {InfoIdCons})
                /\ pc' = "metrics"
    /\ UNCHANGED <<parseVars, presetVars, normVars, lbkbVars, paramVars,
                   appVars, sheetVars, findVars, found_cols_map, metricVars, resultVars>>

ColRekId == <<"R","E","K","_","I","D">>

\* headers of the consumption sheet: the usual one, one with an ID candidate
\* in place of IDPEL, one without any ID column, one whose only ID candidate
\* is a REK column, one without REK columns
RunHeadersCons ==
    { HeaderCons, <<ColIdPel, Col01, Col06>>, <<ColNopel, Col01, Col06>>,
      <<ColRekId, Col01, Col06>>, <<ID_COL>> }

\* headers of the survey sheet: the usual one, one with an ID candidate in
\* place of IDPEL, one without any ID column, one without the column of a
\* category
RunHeadersLbkb ==
    { HeaderLbkb,
      << SurveyCol(ColIdPel, "IDPEL"), SurveyCol(ColKondisi, CatKondisi),
         SurveyCol(ColAngka, CatAngka), SurveyCol(ColTerlihat, CatTerlihat) >>,
      << SurveyCol(ColNopel, "IDPEL"), SurveyCol(ColKondisi, CatKondisi),
         SurveyCol(ColAngka, CatAngka), SurveyCol(ColTerlihat, CatTerlihat) >>,
      << SurveyCol(ID_COL, "IDPEL"), SurveyCol(ColKondisi, CatKondisi),
         SurveyCol(ColAngka, CatAngka) >> }

\* a consumption row: 100 in the first monthly column of the header, v in
\* the others
RunRow(h, id, v) ==
    LET rek == SelectSeq(h, IsRek)
    IN  [IDPEL |-> id,
         cells |-> [c \in Range(rek) |-> IF c = rek[1] THEN Txt100 ELSE v]]

NumRunRows == 1

\* the consumption tables under a header: no row, or NumRunRows customers
RunTables(h) ==
    { <<>>, [i \in 1..NumRunRows |->
                RunRow(h, BinIds[((i - 1) % 6) + 1], IF i = 1 THEN Txt80 ELSE Txt100)] }

InitRun ==
    /\ OtherIdle
    /\ raw_value = <<>>
    /\ TablesEmpty
    /\ analysis_mode \in {ModePenurunan, ModeLbkb, ModeBoth}
    /\ operator = "<="
    /\ threshold = Frac(20, 1)
    /\ tol = DefaultTol
    /\ id_input = <<>>
    /\ IF use_penurunan
       THEN header \in RunHeadersCons /\ df_cons \in RunTables(header)
       ELSE header = <<>> /\ df_cons = <<>>
    /\ months_set1 = <<>>
    /\ months_set2 = <<>>
    /\ IF use_lbkb
       THEN /\ header_lbkb \in RunHeadersLbkb
            /\ sheet_lbkb = SheetDefault
            /\ \E cats \in {cat_names, {CatKondisi}, {}} :
                  /\ selected_cats = cats
                  /\ nilai_pilihan_map =
                        [c \in cat_names |-> IF c \in cats THEN OptsOf(c) ELSE {}]
       ELSE /\ header_lbkb = <<>>
            /\ sheet_lbkb = <<>> /\ selected_cats = {}
            /\ nilai_pilihan_map = [c \in cat_names |-> {}]
    /\ pc = "sort"

NextRun ==
    \/ BuildSortedCols
    \/ \E n \in PresetSizes : ClickPreset(n)
    \/ KeepDefaultPeriods
    \/ SelectPeriods
    \/ ValidatePeriods
    \/ CheckConsColumns
    \/ NextAnalysis

SpecRun == InitRun /\ [][NextRun]_vars

----------------------------------------------------------------------------
(* The mode lock: the session state over clicks and reruns.                 *)

Modes == {ModePenurunan, ModeLbkb, ModeBoth}

\* st.radio(..., index=0): the option shown when the radio is drawn anew
RadioDefault == ModePenurunan

\* the rest of a rerun under the mode the lock section ends with: the
\* sorted columns are rebuilt (lines 620-638)
RerunWith(mode) ==
    /\ analysis_mode' = mode
    /\ sorted_cols' = IF mode \in {ModePenurunan, ModeBoth} /\ df_cons # <<>>
                      THEN SortedCols(header) ELSE <<>>

\* the user picks an option of the radio, shown while unlocked
SelectRadio(m) ==
    /\ ~analysis_mode_locked
    /\ m # radio
    /\ radio' = m
    /\ RerunWith(m)
    /\ UNCHANGED <<pc, parseVars, preset_n, preset_months_set1,
                   preset_months_set2, normVars, lbkbVars, operator, threshold,
                   tol, id_input, df_cons, months_set1, months_set2, sheetVars,
                   findVars, logVars, metricVars, resultVars, editVars,
                   cacheVars, analysis_mode_locked, analysis_mode_choice>>

\* lines 407-411: "Confirm Mode" locks the mode of the radio and reruns; the
\* rerun takes the locked branch and the radio is no longer drawn
ConfirmMode ==
    /\ ~analysis_mode_locked
    /\ analysis_mode_locked' = TRUE
    /\ analysis_mode_choice' = radio
    /\ radio' = ""
    /\ RerunWith(analysis_mode_choice')
    /\ UNCHANGED <<pc, parseVars, preset_n, preset_months_set1,
                   preset_months_set2, normVars, lbkbVars, operator, threshold,
                   tol, id_input, df_cons, months_set1, months_set2, sheetVars,
                   findVars, logVars, metricVars, resultVars, editVars,
                   cacheVars>>

\* "Ubah Mode" with the choice left in the session state
UbahModeKeepsChoice ==
    /\ analysis_mode_locked
    /\ analysis_mode_locked' = FALSE
    /\ analysis_mode_choice' = analysis_mode_choice
    /\ radio' = RadioDefault
    /\ RerunWith(radio')
    /\ UNCHANGED <<pc, parseVars, preset_n, preset_months_set1,
                   preset_months_set2, normVars, lbkbVars, operator, threshold,
                   tol, id_input, df_cons, months_set1, months_set2, sheetVars,
                   findVars, logVars, metricVars, resultVars, editVars,
                   cacheVars>>

\* lines 417-420: "Ubah Mode" unlocks, clears the choice and reruns; the
\* rerun draws the radio anew
UbahMode ==
    /\ analysis_mode_locked
    /\ analysis_mode_locked' = FALSE
    /\ analysis_mode_choice' = None
    /\ radio' = RadioDefault
    /\ RerunWith(radio')
    /\ UNCHANGED <<pc, parseVars, preset_n, preset_months_set1,
                   preset_months_set2, normVars, lbkbVars, operator, threshold,
                   tol, id_input, df_cons, months_set1, months_set2, sheetVars,
                   findVars, logVars, metricVars, resultVars, editVars,
                   cacheVars>>

MaxLockCols == 7

\* lines 393-396 and 399-403: a new session is unlocked, without a choice,
\* and the radio shows its first option
InitLock ==
    /\ pc = "preset"
    /\ colname = <<>>
    /\ parsed = NoDate
    /\ \E k \in 0..MaxLockCols :
          header = [i \in 1..k |-> MonthlyHeader(i)]
    /\ df_cons = <<FilledRow(header)>>
    /\ sorted_cols = SortedCols(header)
    /\ preset_n = 0
    /\ preset_months_set1 = <<>>
    /\ preset_months_set2 = <<>>
    /\ NormIdle
    /\ LbkbIdle
    /\ analysis_mode = RadioDefault
    /\ operator = "<="
    /\ threshold = Frac(20, 1)
    /\ tol = DefaultTol
    /\ id_input = <<>>
    /\ months_set1 = <<>>
    /\ months_set2 = <<>>
    /\ df = <<>>
    /\ df_filtered = <<>>
    /\ df_lbkb = <<>>
    /\ df_merged = <<>>
    /\ df_plot = <<>>
    /\ quarter_counts = <<>>
    /\ header_lbkb = <<>>
    /\ keywords = <<>>
    /\ col_found = NoColumn
    /\ found_cols_map = <<>>
    /\ messages = {}
    /\ remote = <<>>
    /\ sess = <<>>
    /\ events = <<>>
    /\ cache = <<>>
    /\ now = 0
    /\ fetch_result = <<>>
    /\ analysis_mode_locked = FALSE
    /\ analysis_mode_choice = None
    /\ radio = RadioDefault

NextLock ==
    \/ \E m \in Modes : SelectRadio(m)
    \/ ConfirmMode
    \/ UbahMode
    \/ \E n \in PresetSizes : ClickPreset(n)

SpecLock == InitLock /\ [][NextLock]_vars

----------------------------------------------------------------------------
(* Menu "Tambah Data" and "History": the edit path and its audit log.       *)

analysisVars == <<pc, parseVars, presetVars, normVars, lbkbVars, paramVars,
                  sheetVars, findVars, logVars, metricVars, resultVars>>

\* the two spreadsheets, SHEET_ID_CONS and SHEET_ID_LBKB
SheetCons == "SHEET_ID_CONS"
SheetLbkb == "SHEET_ID_LBKB"
Sheets == {SheetCons, SheetLbkb}

\* the browser sessions
Sessions == {"A", "B"}

\* the headers of a new HISTORY_LOG worksheet (line 310)
HistHeaders == [kind |-> "headers", first |-> "Timestamp"]

\* row = [ts, user, action, sh.title, target_sheet_id, details, status]
HistEntry(user, action, sheet, details, status) ==
    [kind |-> "entry", first |-> "ts", user |-> user, action |-> action,
     sheet |-> sheet, details |-> details, status |-> status]

\* what the handlers show
OkColumn       == "success: Kolom berhasil ditambahkan."
ErrColumn      == "error: Gagal menambahkan kolom"
ErrNameEmpty   == "error: Nama kolom tidak boleh kosong."
OkRow          == "success: Baris baru berhasil ditambahkan."
ErrRow         == "error: Gagal menambahkan baris"
ErrHeaderEmpty == "error: Header (baris 1) kosong."
WarnHistory    == "warning: Gagal mencatat history"
InfoNoHistory  == "info: Belum ada history untuk spreadsheet ini."
OkHistoryMade  == "success: Sheet history dibuat."
ErrHistoryLoad == "error: Gagal memuat history"
InfoHistoryEmpty == "info: Tidak ada entri history."
ShownHistory   == "Menampilkan entri history"

\* a session outside a handler
SessIdle ==
    [epc |-> "idle", aksi |-> "", target |-> "", new_col_name |-> <<>>,
     add_position |-> 0, header |-> <<>>, new_row |-> <<>>, shown |-> {},
     writes |-> 0, logs |-> <<>>, write_ok |-> FALSE]

\* lines 1026-1037: the header with the new name inserted at add_position,
\* or appended when the position is 0 or beyond the end
NewHeader(h, name, add_position) ==
    IF add_position # 0 /\ 1 <= add_position
          /\ add_position <= (IF Len(h) + 1 > 1 THEN Len(h) + 1 ELSE 1)
    THEN LET idx    == add_position - 1
             padded == IF Len(h) < idx
                       THEN h \o [k \in 1..(idx - Len(h)) |-> <<>>]
                       ELSE h
         IN  SubSeq(padded, 1, idx) \o <<Strip(name)>>
                 \o SubSeq(padded, idx + 1, Len(padded))
    ELSE Append(h, Strip(name))

\* ws.update('1:1', [values]): the cells of row 1 the list covers are
\* replaced, the cells beyond it stay
UpdateRow1(row, values) ==
    values \o SubSeq(row, Len(values) + 1, Len(row))

\* the number of handler runs that read row 1 so far
Clicks == Cardinality({k \in 1..Len(events) : events[k].op = "read"})

MaxClicks == 2

\* a handler can start in this session
CanClick(s) ==
    /\ sess[s].epc \in {"idle", "done"}
    /\ Clicks < MaxClicks

\* lines 1021-1025: "Tambahkan Kolom" is clicked; an empty name is refused,
\* otherwise row 1 is read
ClickAddColumn(s, t, name, pos) ==
    /\ CanClick(s)
    /\ IF Strip(name) = <<>>
       THEN /\ sess' = [sess EXCEPT ![s] =
                    [SessIdle EXCEPT !.epc = "done", !.aksi = "column",
                        !.target = t, !.new_col_name = name,
                        !.add_position = pos, !.shown = {ErrNameEmpty}]]
            /\ events' = events
       ELSE /\ sess' = [sess EXCEPT ![s] =
                    [SessIdle EXCEPT !.epc = "write", !.aksi = "column",
                        !.target = t, !.new_col_name = name,
                        !.add_position = pos, !.header = remote[t].header]]
            /\ events' = Append(events, [s |-> s, op |-> "read", t |-> t])
    /\ UNCHANGED <<remote, analysisVars, cacheVars, lockVars>>

\* the write followed by st.cache_data.clear()
WriteHeaderClearingCache(s, ok) ==
    /\ sess[s].epc = "write"
    /\ sess[s].aksi = "column"
    /\ LET t == sess[s].target
           h == NewHeader(sess[s].header, sess[s].new_col_name,
                          sess[s].add_position)
       IN  /\ remote' = IF ok
                THEN [remote EXCEPT ![t].header = UpdateRow1(@, h)]
                ELSE remote
           /\ sess' = [sess EXCEPT ![s].epc = "log", ![s].header = h,
                    ![s].writes = @ + 1, ![s].write_ok = ok,
                    ![s].shown = @ \cup {IF ok THEN OkColumn ELSE ErrColumn}]
           /\ events' = IF ok
                THEN Append(events, [s |-> s, op |-> "write", t |-> t])
                ELSE events
           /\ cache' = IF ok THEN <<>> ELSE cache
    /\ UNCHANGED <<analysisVars, now, fetch_result, lockVars>>

\* the write with row 1 read again and changed in one step
WriteHeaderOnFreshRow(s, ok) ==
    /\ sess[s].epc = "write"
    /\ sess[s].aksi = "column"
    /\ LET t == sess[s].target
           h == NewHeader(remote[t].header, sess[s].new_col_name,
                          sess[s].add_position)
       IN  /\ remote' = IF ok
                THEN [remote EXCEPT ![t].header = UpdateRow1(@, h)]
                ELSE remote
           /\ sess' = [sess EXCEPT ![s].epc = "log", ![s].header = h,
                    ![s].writes = @ + 1, ![s].write_ok = ok,
                    ![s].shown = @ \cup {IF ok THEN OkColumn ELSE ErrColumn}]
           /\ events' = IF ok
                THEN Append(events, [s |-> s, op |-> "write", t |-> t])
                ELSE events
    /\ UNCHANGED <<analysisVars, cacheVars, lockVars>>

\* lines 1026-1040: the new header is written over row 1; the write may
\* fail
WriteHeader(s, ok) ==
    /\ sess[s].epc = "write"
    /\ sess[s].aksi = "column"
    /\ LET t == sess[s].target
           h == NewHeader(sess[s].header, sess[s].new_col_name,
                          sess[s].add_position)
       IN  /\ remote' = IF ok
                THEN [remote EXCEPT ![t].header = UpdateRow1(@, h)]
                ELSE remote
           /\ sess' = [sess EXCEPT ![s].epc = "log", ![s].header = h,
                    ![s].writes = @ + 1, ![s].write_ok = ok,
                    ![s].shown = @ \cup {IF ok THEN OkColumn ELSE ErrColumn}]
           /\ events' = IF ok
                THEN Append(events, [s |-> s, op |-> "write", t |-> t])
                ELSE events
    /\ UNCHANGED <<analysisVars, cacheVars, lockVars>>

\* lines 1058-1075: "Tambahkan Baris" is submitted with a value for every
\* column of row 1; an empty row 1 stops the script
SubmitAddRow(s, t, v) ==
    /\ CanClick(s)
    /\ IF remote[t].header = <<>>
       THEN /\ sess' = [sess EXCEPT ![s] =
                    [SessIdle EXCEPT !.epc = "done", !.aksi = "row",
                        !.target = t, !.shown = {ErrHeaderEmpty}]]
       ELSE /\ sess' = [sess EXCEPT ![s] =
                    [SessIdle EXCEPT !.epc = "write", !.aksi = "row",
                        !.target = t, !.header = remote[t].header,
                        !.new_row = [k \in 1..Len(remote[t].header) |-> v]]]
    /\ events' = Append(events, [s |-> s, op |-> "read", t |-> t])
    /\ UNCHANGED <<remote, analysisVars, cacheVars, lockVars>>

\* lines 1076-1079: ws.append_row(new_row_inputs); the write may fail
WriteRow(s, ok) ==
    /\ sess[s].epc = "write"
    /\ sess[s].aksi = "row"
    /\ LET t == sess[s].target
       IN  /\ remote' = IF ok
                THEN [remote EXCEPT ![t].rows = Append(@, sess[s].new_row)]
                ELSE remote
           /\ sess' = [sess EXCEPT ![s].epc = "log",
                    ![s].writes = @ + 1, ![s].write_ok = ok,
                    ![s].shown = @ \cup {IF ok THEN OkRow ELSE ErrRow}]
    /\ UNCHANGED <<events, analysisVars, cacheVars, lockVars>>

\* what can happen inside log_history and _ensure_history_ws
LogOutcomes ==
    {"ok", "open_fails", "header_append_fails", "row_values_fails",
     "append_fails"}

\* hdr[0] of a row of the history sheet
FirstCell(row) == row.first

\* _ensure_history_ws with the headers put over any row 1 that is not them
EnsureRewritingRow1(hist, out) ==
    IF ~hist.exists /\ out = "header_append_fails"
    THEN [exists |-> TRUE, rows |-> <<>>, raised |-> TRUE]
    ELSE LET rows1 == IF hist.exists THEN hist.rows ELSE <<HistHeaders>>
             rows2 == IF out = "row_values_fails" THEN rows1
                      ELSE IF rows1 = <<>> \/ rows1[1] # HistHeaders
                      THEN <<HistHeaders>> \o
                               (IF rows1 = <<>> THEN <<>> ELSE Tail(rows1))
                      ELSE rows1
         IN  [exists |-> TRUE, rows |-> rows2, raised |-> FALSE]

\* lines 304-320: _ensure_history_ws; a missing worksheet is created and
\* given the headers, and a row 1 that is empty or starts with a blank
\* cell is overwritten with the headers (an exception there is passed over)
EnsureHistoryWs(hist, out) ==
    IF ~hist.exists /\ out = "header_append_fails"
    THEN [exists |-> TRUE, rows |-> <<>>, raised |-> TRUE]
    ELSE LET rows1 == IF hist.exists THEN hist.rows ELSE <<HistHeaders>>
             rows2 == IF out = "row_values_fails" THEN rows1
                      ELSE IF rows1 = <<>> \/ Strip(<<FirstCell(rows1[1])>>) = <<>>
                      THEN <<HistHeaders>> \o
                               (IF rows1 = <<>> THEN <<>> ELSE Tail(rows1))
                      ELSE rows1
         IN  [exists |-> TRUE, rows |-> rows2, raised |-> FALSE]

\* the history sheet after log_history, and whether it raised inside
Logged(hist, out, entry) ==
    IF out = "open_fails" THEN [hist EXCEPT !.raised = TRUE]
    ELSE LET e == EnsureHistoryWs([exists |-> hist.exists, rows |-> hist.rows], out)
         IN  IF e.raised \/ out = "append_fails"
             THEN [e EXCEPT !.raised = TRUE]
             ELSE [e EXCEPT !.rows = Append(@, entry)]

\* the handler after a successful write with st.rerun() caught by the
\* handler's except: the error is shown and a FAILED record follows
LogHistoryRerunCaught(s, out) ==
    /\ sess[s].epc = "log"
    /\ LET t      == sess[s].target
           action == IF sess[s].aksi = "column" THEN "Tambah Kolom"
                     ELSE "Tambah Baris"
           status == IF sess[s].write_ok THEN "SUCCESS" ELSE "FAILED"
           entry  == HistEntry(s, action, t, sess[s].new_col_name, status)
           after  == Logged([exists |-> remote[t].hist_exists,
                             rows |-> remote[t].hist_rows, raised |-> FALSE],
                            out, entry)
       IN  /\ remote' = [remote EXCEPT ![t].hist_exists = after.exists,
                                       ![t].hist_rows = after.rows]
           /\ sess' = [sess EXCEPT ![s].epc = "done",
                    ![s].logs = IF sess[s].write_ok
                                THEN @ \o <<status, "FAILED">>
                                ELSE Append(@, status),
                    ![s].shown = @ \cup (IF after.raised THEN {WarnHistory} ELSE {})
                        \cup (IF sess[s].write_ok
                              THEN {IF sess[s].aksi = "column" THEN ErrColumn
                                    ELSE ErrRow}
                              ELSE {})]
    /\ UNCHANGED <<events, analysisVars, cacheVars, lockVars>>

\* lines 1042-1055 and 1081-1100, with log_history (322-340): one record
\* with the status of the write is appended to the history sheet of the
\* target spreadsheet; whatever fails inside is shown as a warning; then
\* the page reruns (after a success) or the script ends
LogHistory(s, out) ==
    /\ sess[s].epc = "log"
    /\ LET t      == sess[s].target
           action == IF sess[s].aksi = "column" THEN "Tambah Kolom"
                     ELSE "Tambah Baris"
           status == IF sess[s].write_ok THEN "SUCCESS" ELSE "FAILED"
           entry  == HistEntry(s, action, t, sess[s].new_col_name, status)
           after  == Logged([exists |-> remote[t].hist_exists,
                             rows |-> remote[t].hist_rows, raised |-> FALSE],
                            out, entry)
       IN  /\ remote' = [remote EXCEPT ![t].hist_exists = after.exists,
                                       ![t].hist_rows = after.rows]
           /\ sess' = [sess EXCEPT ![s].epc = "done",
                    ![s].logs = Append(@, status),
                    ![s].shown = @ \cup (IF after.raised THEN {WarnHistory} ELSE {})]
    /\ UNCHANGED <<events, analysisVars, cacheVars, lockVars>>

\* lines 1103-1129: the menu "History" of one spreadsheet is opened
ViewHistory(s, t) ==
    /\ sess[s].epc \in {"idle", "done"}
    /\ sess' = [sess EXCEPT ![s] =
            [SessIdle EXCEPT !.epc = "done", !.aksi = "history", !.target = t,
                !.shown = IF ~remote[t].hist_exists THEN {InfoNoHistory}
                          ELSE IF Len(remote[t].hist_rows) <= 1
                          THEN {InfoHistoryEmpty}
                          ELSE {ShownHistory}]]
    /\ sess'[s] # sess[s]
    /\ UNCHANGED <<remote, events, analysisVars, cacheVars, lockVars>>

\* lines 1118-1121: "Buat sheet history sekarang", offered when the
\* spreadsheet has no history sheet
CreateHistory(s, t, out) ==
    /\ sess[s].epc = "done"
    /\ sess[s].aksi = "history"
    /\ sess[s].target = t
    /\ ~remote[t].hist_exists
    /\ out \in {"ok", "header_append_fails", "row_values_fails"}
    /\ LET e == EnsureHistoryWs([exists |-> FALSE, rows |-> <<>>], out)
       IN  /\ remote' = [remote EXCEPT ![t].hist_exists = e.exists,
                                       ![t].hist_rows = e.rows]
           /\ sess' = [sess EXCEPT ![s].shown =
                    IF e.raised THEN {ErrHistoryLoad} ELSE {OkHistoryMade}]
    /\ UNCHANGED <<events, analysisVars, cacheVars, lockVars>>

\* names typed for a new column: one with a space before it and a blank
\* one
NewNames == {<<" ", "M">>, <<" ">>}

MaxPosition == 2

\* add_position: 0, the positions up to MaxPosition and the largest one
Positions == (0..MaxPosition) \cup {9999}

\* the worksheet of a spreadsheet before the edits; the history sheet is
\* missing, or there and still empty (its header row could not be written)
SheetStart ==
    [header |-> <<ID_COL, Col01>>, rows |-> << <<IdX, Txt100>> >>,
     hist_exists |-> FALSE, hist_rows |-> <<>>]

\* everything but the edit path at rest
InitEditRest ==
    /\ pc = "edit"
    /\ AnalysisMenuIdle
    /\ cache = <<>>
    /\ now = 0
    /\ fetch_result = <<>>
    /\ analysis_mode_locked = FALSE
    /\ analysis_mode_choice = None
    /\ radio = ""

InitEdit ==
    /\ InitEditRest
    /\ remote \in {[t \in Sheets |-> SheetStart],
                    [t \in Sheets |-> [SheetStart EXCEPT !.header = <<>>,
                                                         !.rows = <<>>]],
                    [t \in Sheets |-> [SheetStart EXCEPT !.hist_exists = TRUE]]}
    /\ sess = [s \in Sessions |-> SessIdle]
    /\ events = <<>>

\* one session works, the other stays idle
NextEdit ==
    \/ \E t \in Sheets, name \in NewNames, pos \in Positions :
            ClickAddColumn("A", t, name, pos)
    \/ \E ok \in BOOLEAN : WriteHeader("A", ok)
    \/ \E t \in Sheets : SubmitAddRow("A", t, Txt80)
    \/ \E ok \in BOOLEAN : WriteRow("A", ok)
    \/ \E out \in LogOutcomes : LogHistory("A", out)
    \/ \E t \in Sheets : ViewHistory("A", t)
    \/ \E t \in Sheets, out \in LogOutcomes : CreateHistory("A", t, out)

SpecEdit == InitEdit /\ [][NextEdit]_vars

----------------------------------------------------------------------------
(* Two sessions adding columns at the same time.                            *)

RaceNames == {<<"N">>, <<" ", "M">>}

RacePositions == {0, 1}

\* the audit record is written, or writing it fails
RaceLogOutcomes == {"ok", "append_fails"}

InitRace ==
    /\ InitEditRest
    /\ remote = [t \in Sheets |-> SheetStart]
    /\ sess = [s \in Sessions |-> SessIdle]
    /\ events = <<>>

NextRace ==
    \/ \E s \in Sessions, t \in Sheets, name \in RaceNames,
            pos \in RacePositions : ClickAddColumn(s, t, name, pos)
    \/ \E s \in Sessions, ok \in BOOLEAN : WriteHeader(s, ok)
    \/ \E s \in Sessions, out \in RaceLogOutcomes : LogHistory(s, out)

SpecRace == InitRace /\ [][NextRace]_vars

----------------------------------------------------------------------------
(* The cached fetches of the published CSV, next to the edit path.          *)

\* line 90 and line 111: st.cache_data(ttl=3600), in seconds
ttl == 3600

\* the instants at which the program is looked at
Instants == {0, ttl - 1, ttl}

\* pd.read_csv names the columns after row 1; a name seen k times before
\* gets the suffix .k
CsvColumns(row) ==
    [i \in 1..Len(row) |->
        LET k == Cardinality({j \in 1..(i - 1) : row[j] = row[i]})
        IN  IF k = 0 THEN row[i] ELSE row[i] \o <<".", DigitCh(k)>>]

\* a data row as the CSV has it: one cell per column, missing ones NA
CsvRow(row, width) ==
    [i \in 1..width |-> IF i <= Len(row) THEN row[i] ELSE NA]

\* the columns of q at the places in keep, in the order of q
Project(q, keep) ==
    LET F[i \in 0..Len(q)] ==
            IF i = 0 THEN <<>>
            ELSE IF i \in keep THEN Append(F[i - 1], q[i]) ELSE F[i - 1]
    IN  F[Len(q)]

\* usecols=None
AllColumns == <<>>

\* lines 91-109: fetch_sheet_csv_header on the sheet as it is now: the
\* column names and no rows
ReadHeader(sheet) == [columns |-> CsvColumns(sheet.header), rows |-> <<>>]

\* lines 112-135: fetch_sheet_csv on the sheet as it is now; a usecols
\* with a name the file lacks falls back to every column
ReadCsv(sheet, usecols) ==
    LET columns == CsvColumns(sheet.header)
        width == Len(columns)
        keep == IF usecols # AllColumns
                    /\ Range(usecols) \subseteq Range(columns)
                THEN {i \in 1..width : columns[i] \in Range(usecols)}
                ELSE 1..width
    IN  [columns |-> Project(columns, keep),
         rows |-> [k \in 1..Len(sheet.rows) |->
                      Project(CsvRow(sheet.rows[k], width), keep)]]

\* the arguments of a cached call: the function, the sheet (id and gid)
\* and usecols; no caller passes a timeout
Requests ==
    {[fn |-> "header", t |-> SheetCons, usecols |-> AllColumns],
     [fn |-> "csv", t |-> SheetCons, usecols |-> <<ID_COL>>]}

ReadRemote(req) ==
    IF req.fn = "header" THEN ReadHeader(remote[req.t])
    ELSE ReadCsv(remote[req.t], req.usecols)

\* a cached value that has not expired
Fresh(req) == req \in DOMAIN cache /\ now < cache[req].at + ttl

Fetches == Cardinality({k \in 1..Len(events) : events[k].op = "fetch"})

MaxFetches == 2

\* the call raised: no value
FetchError == [columns |-> <<>>, rows |-> <<>>]

\* a cached fetch that asks the network every time
FetchUncached(s, req, ok) ==
    /\ sess[s].epc \in {"idle", "done"}
    /\ Fetches < MaxFetches
    /\ events' = Append(events, [s |-> s, op |-> "fetch", t |-> req.t])
    /\ IF ok
       THEN /\ cache' = [r \in DOMAIN cache \cup {req} |->
                    IF r = req THEN [value |-> ReadRemote(req), at |-> now]
                    ELSE cache[r]]
            /\ fetch_result' = [req |-> req, raised |-> FALSE,
                                 value |-> ReadRemote(req)]
       ELSE /\ cache' = cache
            /\ fetch_result' = [req |-> req, raised |-> TRUE,
                                 value |-> FetchError]
    /\ UNCHANGED <<remote, sess, now, analysisVars, lockVars>>

\* lines 90-135: a call of fetch_sheet_csv_header or fetch_sheet_csv under
\* st.cache_data: a value cached less than ttl ago is returned as it is,
\* otherwise the function runs, and what it returns is cached; a request
\* that raises caches nothing
Fetch(s, req, ok) ==
    /\ sess[s].epc \in {"idle", "done"}
    /\ Fetches < MaxFetches
    /\ events' = Append(events, [s |-> s, op |-> "fetch", t |-> req.t])
    /\ IF Fresh(req)
       THEN /\ cache' = cache
            /\ fetch_result' = [req |-> req, raised |-> FALSE,
                                 value |-> cache[req].value]
       ELSE IF ok
       THEN /\ cache' = [r \in DOMAIN cache \cup {req} |->
                    IF r = req THEN [value |-> ReadRemote(req), at |-> now]
                    ELSE cache[r]]
            /\ fetch_result' = [req |-> req, raised |-> FALSE,
                                 value |-> ReadRemote(req)]
       ELSE /\ cache' = cache
            /\ fetch_result' = [req |-> req, raised |-> TRUE,
                                 value |-> FetchError]
    /\ UNCHANGED <<remote, sess, now, analysisVars, lockVars>>

\* time passes
Tick ==
    /\ now' \in {i \in Instants : i > now}
    /\ UNCHANGED <<remote, sess, events, cache, fetch_result, analysisVars,
                   lockVars>>

CacheNames == {<<"M">>}

InitCache ==
    /\ InitEditRest
    /\ remote = [t \in Sheets |-> SheetStart]
    /\ sess = [s \in Sessions |-> SessIdle]
    /\ events = <<>>

\* session A edits the consumption sheet and its writes succeed, session B
\* fetches
NextCache ==
    \/ \E req \in Requests, ok \in BOOLEAN : Fetch("B", req, ok)
    \/ Tick
    \/ \E name \in CacheNames : ClickAddColumn("A", SheetCons, name, 0)
    \/ WriteHeader("A", TRUE)
    \/ SubmitAddRow("A", SheetCons, Txt80)
    \/ WriteRow("A", TRUE)
    \/ LogHistory("A", "ok")

SpecCache == InitCache /\ [][NextCache]_vars

----------------------------------------------------------------------------
(* Column Finder run: one keyword list is looked up in one header.          *)

MaxHeaderLen == 3
MaxKeywords == 2

\* survey columns under names that hold all, some or none of the keywords
FindColumns ==
    { SurveyCol(<<"K","o","n","d","i","s","i"," ","B","a","n","g","u","n","a","n">>, CatKondisi),
      SurveyCol(<<"K","O","N","D","I","S","I">>, CatKondisi),
      SurveyCol(<<"F","o","t","o"," ","M","e","t","e","r">>, CatAngka),
      SurveyCol(<<"A","N","G","K","A"," ","S","T","A","N">>, CatAngka),
      SurveyCol(ID_COL, "IDPEL") }

FindKeywords == {KwKondisi, KwBangun, KwFoto, KwMeter, <<"a","n","g","k","a">>}

InitFind ==
    /\ pc = "find"
    /\ colname = <<>>
    /\ parsed = NoDate
    /\ sorted_cols = <<>>
    /\ preset_n = 0
    /\ preset_months_set1 = <<>>
    /\ preset_months_set2 = <<>>
    /\ NormIdle
    /\ LbkbIdle
    /\ analysis_mode = ""
    /\ operator = ""
    /\ threshold = <<>>
    /\ tol = <<>>
    /\ id_input = <<>>
    /\ df_cons = <<>>
    /\ months_set1 = <<>>
    /\ months_set2 = <<>>
    /\ TablesEmpty
    /\ header = <<>>
    /\ header_lbkb \in SeqsUpTo(FindColumns, MaxHeaderLen)
    /\ keywords \in SeqsUpTo(FindKeywords, MaxKeywords)
    /\ col_found = NoColumn

\* col_found = find_column_by_keywords(header_lbkb, keywords)
FindColumn ==
    /\ pc = "find"
    /\ col_found' = find_column_by_keywords(Names(header_lbkb), keywords)
    /\ pc' = "found"
    /\ UNCHANGED <<parseVars, presetVars, normVars, lbkbVars, paramVars,
                   appVars, sheetVars, keywords, logVars, metricVars, resultVars>>

NextFind == FindColumn

SpecFind == InitFind /\ [][NextFind]_vars

----------------------------------------------------------------------------
(* Claims about the Header Inspector.                                       *)

HdrDash    == REK \o <<"_", "2", "0", "2", "3", "-", "1", "1">>
HdrCompact == REK \o <<"1", "1", "2", "0", "2", "3">>
HdrWord    == REK \o <<"_", "N", "o", "v", "_", "2", "0", "2", "3">>

\* C1: the headers "REK_2023-11", "REK112023" and "REK_Nov_2023" are each
\* parsed to the same pair (year 2023, month 11).
C1_SeparatorIndependent ==
    (pc = "parsed" /\ colname \in {HdrDash, HdrCompact, HdrWord})
        => parsed = <<2023, 11>>

----------------------------------------------------------------------------
(* Claims about the Period Selector.                                        *)

\* the last n columns, all of them when fewer than n exist
PresetWindow(n) ==
    IF Len(sorted_cols) < n THEN sorted_cols
    ELSE SubSeq(sorted_cols, Len(sorted_cols) - n + 1, Len(sorted_cols))

PresetSplitsAt(n, split) ==
    /\ preset_months_set1 = SubSeq(PresetWindow(n), 1, split)
    /\ preset_months_set2 = SubSeq(PresetWindow(n), split + 1, Len(PresetWindow(n)))

\* C2 as stated: the window is split at n // 2, except that a window with
\* fewer elements than n // 2 is split at window_length // 2.
C2_SplitWhenFewer ==
    preset_n # 0 =>
        PresetSplitsAt(preset_n,
            IF Len(PresetWindow(preset_n)) < preset_n \div 2
            THEN Len(PresetWindow(preset_n)) \div 2 ELSE preset_n \div 2)

\* C2 amended: the window is split at n // 2, except that a window with no
\* more elements than n // 2 (fewer or exactly as many) is split at
\* window_length // 2.
C2_SplitWhenNoMore ==
    preset_n # 0 =>
        PresetSplitsAt(preset_n,
            IF Len(PresetWindow(preset_n)) <= preset_n \div 2
            THEN Len(PresetWindow(preset_n)) \div 2 ELSE preset_n \div 2)

\* a window of exactly n // 2 columns has been split by a preset
C2_Witness ==
    /\ preset_n = 6
    /\ Len(sorted_cols) = 3
    /\ Len(preset_months_set1) = 1
    /\ Len(preset_months_set2) = 2

\* C3 as stated: preset 6 on 10 columns gives periods of length 3 and 3, and
\* on fewer than 6 columns the whole list is split at len // 2.
C3_SixAlwaysHalves ==
    /\ (preset_n = 6 /\ Len(sorted_cols) = 10)
          => Len(preset_months_set1) = 3 /\ Len(preset_months_set2) = 3
    /\ (preset_n = 6 /\ Len(sorted_cols) < 6)
          => PresetSplitsAt(6, Len(sorted_cols) \div 2)

\* C3 amended: preset 6 on 10 columns gives periods of length 3 and 3; on
\* fewer than 6 columns the window is the whole list, split at len // 2 when
\* it has at most 3 columns and at 3 when it has 4 or 5.
C3_SixHalvesUpToThree ==
    /\ (preset_n = 6 /\ Len(sorted_cols) = 10)
          => /\ Len(preset_months_set1) = 3
             /\ Len(preset_months_set2) = 3
             /\ preset_months_set1 \o preset_months_set2 = SubSeq(sorted_cols, 5, 10)
    /\ (preset_n = 6 /\ Len(sorted_cols) < 6)
          => /\ preset_months_set1 \o preset_months_set2 = sorted_cols
             /\ Len(preset_months_set1) =
                    IF Len(sorted_cols) <= 3 THEN Len(sorted_cols) \div 2 ELSE 3

\* preset 6 has been applied to a list of 5 columns
C3_Witness ==
    /\ preset_n = 6
    /\ Len(sorted_cols) = 5
    /\ Len(preset_months_set1) = 3
    /\ Len(preset_months_set2) = 2

----------------------------------------------------------------------------
(* Claims about the Checklist Normalizer.                                   *)

\* the words of a text: its maximal runs of letters and digits, lowercased
RECURSIVE WordsFrom(_, _)
WordsFrom(s, i) ==
    IF i > Len(s) THEN <<>>
    ELSE LET n == Run(s, i, LowerLetters \cup Digits)
         IN  IF n = 0 THEN WordsFrom(s, i + 1)
             ELSE <<SubSeq(s, i, i + n - 1)>> \o WordsFrom(s, i + n)

\* the replacement of a standalone token
TokenOf(w) ==
    IF w \in {TxtTdk, TxtT, TxtNo} THEN TxtTidak
    ELSE IF w \in {TxtY, TxtYes} THEN TxtYa
    ELSE w

RECURSIVE JoinWords(_)
JoinWords(ws) ==
    IF ws = <<>> THEN <<>>
    ELSE IF Len(ws) = 1 THEN TokenOf(ws[1])
    ELSE TokenOf(ws[1]) \o <<" ">> \o JoinWords(Tail(ws))

\* the cleaned text: the replaced words joined by single blanks
CleanedWords(v) == JoinWords(WordsFrom(Lower(v), 1))

\* C9: every raw text is mapped, after cleaning and token replacement, by the
\* first matching rule of the chain tidak+sesuai, tidak+terawat, sesuai,
\* terawat, else the cleaned text itself; "Tdk Sesuai", "TIDAK  SESUAI",
\* "tidak_sesuai" and "tidak sesuai dan tidak terawat" give "tidak sesuai".
C9_PriorityChain ==
    (pc = "normalized" /\ raw_value # NA) =>
        LET c == CleanedWords(raw_value)
        IN  /\ (Contains(c, TxtTidak) /\ Contains(c, TxtSesuai))
                  => norm_value = TxtTidakSesuai
            /\ (Contains(c, TxtTidak) /\ ~Contains(c, TxtSesuai)
                    /\ Contains(c, TxtTerawat))
                  => norm_value = TxtTidakTerawat
            /\ (~Contains(c, TxtTidak) /\ Contains(c, TxtSesuai))
                  => norm_value = TxtSesuai
            /\ (~Contains(c, TxtTidak) /\ ~Contains(c, TxtSesuai)
                    /\ Contains(c, TxtTerawat))
                  => norm_value = TxtTerawat
            /\ (~Contains(c, TxtSesuai) /\ ~Contains(c, TxtTerawat))
                  => norm_value = c
            /\ raw_value \in {ExTdkSesuai, ExTidakSesuai, ExUnderscore, ExBoth}
                  => norm_value = TxtTidakSesuai

\* "tidak sesuai dan tidak terawat" has been normalised to "tidak sesuai"
C9_Witness ==
    /\ pc = "normalized"
    /\ raw_value = ExBoth
    /\ norm_value = TxtTidakSesuai

----------------------------------------------------------------------------
(* Claims about the Metric Calculator and the Threshold Filter.  They are   *)
(* stated on the readings as integers, taken from the cell texts by the    *)
(* table CellValue, not through the fraction arithmetic of the model.       *)

\* the number each numeric cell text of the tables stands for
CellValue ==
    (Txt100 :> 100) @@ (Txt80 :> 80) @@ (Txt0 :> 0) @@ (Txt1 :> 1)
        @@ (Txt300000 :> 300000)

RECURSIVE RawSum(_, _)
RawSum(cells, cols) ==
    IF cols = <<>> THEN 0
    ELSE (IF cells[Head(cols)] \in DOMAIN CellValue
            THEN CellValue[cells[Head(cols)]] ELSE 0) + RawSum(cells, Tail(cols))

RECURSIVE RawCount(_, _)
RawCount(cells, cols) ==
    IF cols = <<>> THEN 0
    ELSE (IF cells[Head(cols)] \in DOMAIN CellValue THEN 1 ELSE 0)
            + RawCount(cells, Tail(cols))

Sum1(i) == RawSum(df_cons[i].cells, months_set1)
Sum2(i) == RawSum(df_cons[i].cells, months_set2)
Cnt1(i) == RawCount(df_cons[i].cells, months_set1)
Cnt2(i) == RawCount(df_cons[i].cells, months_set2)

\* pct_change of row i is PctNum(i) / PctDen(i) when both means exist and
\* avg1 is not 0
PctDefined(i) == Cnt1(i) > 0 /\ Cnt2(i) > 0 /\ Sum1(i) # 0
PctNum(i) == 100 * (Sum1(i) * Cnt2(i) - Sum2(i) * Cnt1(i))
PctDen(i) == Sum1(i) * Cnt2(i)

\* x is the mean sum / cnt, missing when cnt = 0
MeanIs(x, sum, cnt) ==
    IF cnt = 0 THEN x = NaN ELSE IsFinite(x) /\ x.n * cnt = sum * x.d

\* x is the fraction a / b, b > 0
FracIs(x, a, b) ==
    IsFinite(x) /\ LeqRatio(x.n, x.d, a, b) /\ LeqRatio(a, b, x.n, x.d)

\* the table holds the row of customer row i
InTable(t, i) == \E k \in 1..Len(t) : t[k].idx = i

AfterFilter == pc \in {"checklist", "join", "bin", "done", "error"}

\* C4: for every row, avg1 and avg2 are the means of the row's numeric cells
\* in the Period 1 and Period 2 columns, cells failing coercion left out of
\* sum and count, and pct_change = (avg1 - avg2) / avg1 * 100.
C4_MeansSkipMissing ==
    pc = "drop" =>
        \A k \in 1..Len(df) :
            LET r == df[k]
                i == r.idx
            IN  /\ MeanIs(r.Rata2_Periode1, Sum1(i), Cnt1(i))
                /\ MeanIs(r.Rata2_Periode2, Sum2(i), Cnt2(i))
                /\ (Cnt1(i) = 0 \/ Cnt2(i) = 0) => r.Selisih_Rata2 = NaN
                /\ PctDefined(i) => FracIs(r.Selisih_Rata2, PctNum(i), PctDen(i))

\* a row with one unreadable and one numeric Period 1 cell has been computed
C4_Witness ==
    /\ pc = "drop"
    /\ months_set1 = <<Col01, Col07>>
    /\ df_cons[1].cells[Col01] = Txt100
    /\ df_cons[1].cells[Col07] = TxtJunk
    /\ df_cons[1].cells[Col06] = Txt80
    /\ df[1].Rata2_Periode1 = Frac(100, 1)
    /\ df[1].Selisih_Rata2 = Frac(20, 1)

\* avg1 of row i is 0
ZeroAvg1(i) == Cnt1(i) > 0 /\ Sum1(i) = 0

\* C5: a row whose avg1 is 0 has a missing pct_change, whatever avg2 is (no
\* exception, no infinity), and is dropped before the threshold filter.
C5_ZeroAvgMissing ==
    /\ pc = "drop" =>
          \A k \in 1..Len(df) :
              ZeroAvg1(df[k].idx) =>
                  /\ df[k].Rata2_Periode1 = Frac(0, 1)
                  /\ df[k].Selisih_Rata2 = NaN
    /\ (pc = "filter" \/ AfterFilter) =>
          \A i \in 1..Len(df_cons) :
              ZeroAvg1(i) => /\ ~InTable(df, i)
                             /\ ~InTable(df_filtered, i)
                             /\ ~InTable(df_merged, i)

\* a row with avg1 = 0 and avg2 = 80 has been dropped and the run went on
C5_Witness ==
    /\ pc = "filter"
    /\ months_set1 = <<Col01>>
    /\ months_set2 = <<Col06>>
    /\ df_cons[1].cells[Col01] = Txt0
    /\ df_cons[1].cells[Col06] = Txt80
    /\ ~InTable(df, 1)
    /\ InTable(df, 2)

\* pct_change of row i is missing or negative
NegativeOrMissing(i) == ~PctDefined(i) \/ PctNum(i) < 0 \/ PctDen(i) < 0

\* C6: in the modes that compute pct_change and under every operator, no
\* row whose pct_change is negative or missing is in the threshold-filtered
\* output, in the joined result or in a distribution bucket.
C6_NoNegativeRows ==
    use_penurunan =>
        /\ \A i \in 1..Len(df_cons) :
              NegativeOrMissing(i) =>
                  /\ ~InTable(df_filtered, i)
                  /\ ~InTable(df_merged, i)
                  /\ ~InTable(df_plot, i)
        /\ \A k \in 1..Len(df_filtered) :
              IsFinite(df_filtered[k].Selisih_Rata2) /\ df_filtered[k].Selisih_Rata2.n >= 0
        /\ \A k \in 1..Len(df_merged) :
              IsFinite(df_merged[k].Selisih_Rata2) /\ df_merged[k].Selisih_Rata2.n >= 0
        /\ \A k \in 1..Len(df_plot) :
              IsFinite(df_plot[k].Selisih_Rata2) /\ df_plot[k].Selisih_Rata2.n >= 0

\* a run with a customer whose consumption rose from 80 to 100 ended with
\* buckets that hold the other customer only
C6_Witness ==
    /\ pc = "done"
    /\ operator = "<="
    /\ months_set1 = <<Col01>>
    /\ months_set2 = <<Col06>>
    /\ df_cons[1].cells[Col01] = Txt80
    /\ df_cons[1].cells[Col06] = Txt100
    /\ quarter_counts # <<>>
    /\ InTable(df_plot, 2)
    /\ ~InTable(df_plot, 1)

\* the customer of the end-to-end scenario: 100 in Period 1, 80 in Period 2
ScenarioRow(i) ==
    /\ months_set1 = <<Col01>>
    /\ months_set2 = <<Col06>>
    /\ df_cons[i].cells[Col01] = Txt100
    /\ df_cons[i].cells[Col06] = Txt80

\* C7: under "<=" the filter keeps exactly the rows with pct_change <=
\* threshold and under ">=" exactly those with pct_change >= threshold, the
\* boundary included; the customer with readings 100 and 80 has avg1 = 100,
\* avg2 = 80, pct_change = 20, is kept for "<=" 20 and left out for "<=" 19.
C7_BoundaryIncluded ==
    /\ (AfterFilter /\ use_penurunan /\ operator = "<=") =>
          \A k \in 1..Len(df) :
              InTable(df_filtered, df[k].idx)
                  <=> PctNum(df[k].idx) * threshold.d <= threshold.n * PctDen(df[k].idx)
    /\ (AfterFilter /\ use_penurunan /\ operator = ">=") =>
          \A k \in 1..Len(df) :
              InTable(df_filtered, df[k].idx)
                  <=> PctNum(df[k].idx) * threshold.d >= threshold.n * PctDen(df[k].idx)
    /\ (AfterFilter /\ use_penurunan) =>
          \A k \in 1..Len(df) :
              ScenarioRow(df[k].idx) =>
                  /\ df[k].Rata2_Periode1 = Frac(100, 1)
                  /\ df[k].Rata2_Periode2 = Frac(80, 1)
                  /\ df[k].Selisih_Rata2 = Frac(20, 1)
                  /\ (operator = "<=" /\ threshold = Frac(20, 1))
                        => InTable(df_filtered, df[k].idx)
                  /\ (operator = "<=" /\ threshold = Frac(19, 1))
                        => ~InTable(df_filtered, df[k].idx)
    /\ (AfterFilter /\ use_penurunan) =>
          \A i \in 1..Len(df_cons) : ScenarioRow(i) => InTable(df, i)

\* the scenario customer has been kept by "<=" with threshold 20
C7_Witness ==
    /\ pc = "join"
    /\ operator = "<="
    /\ threshold = Frac(20, 1)
    /\ ScenarioRow(1)
    /\ InTable(df_filtered, 1)

\* C8: under "==" the filter keeps a row if and only if
\* |pct_change - threshold| <= tolerance, for every threshold and tolerance
\* (tolerance 0 included); no row farther than the tolerance is kept.
C8_WithinToleranceOnly ==
    (AfterFilter /\ use_penurunan /\ operator = "==") =>
        \A k \in 1..Len(df) :
            LET i == df[k].idx
            IN  InTable(df_filtered, i)
                  <=> Abs(PctNum(i) * threshold.d - threshold.n * PctDen(i)) * tol.d
                            <= tol.n * PctDen(i) * threshold.d

----------------------------------------------------------------------------
(* Claims about the Checklist Filter.                                       *)

\* the normalised labels of a selection
NormSet(S) == {normalize_value_for_compare(v) : v \in S}

\* row i of the survey sheet is in the Checklist Filter output
KeptRow(i) == InTable(df_lbkb_filtered, i)

AfterChecklist == pc \in {"join", "bin", "done", "error"}

\* C10 as stated: for every selected category with selection S, any subset
\* of its options, a row is kept if and only if its normalised value is
\* among the normalised elements of S.
C10_MemberOfAnySelection ==
    (AfterChecklist /\ use_lbkb) =>
        \A i \in 1..Len(sheet_lbkb) :
            KeptRow(i) <=>
                \A c \in selected_cats :
                    normalize_value_for_compare(sheet_lbkb[i].vals[c])
                        \in NormSet(nilai_pilihan_map[c])

\* C10 amended: for every selected category with a non-empty selection S a
\* row is kept if and only if its normalised value is among the normalised
\* elements of S; a selected category with an empty S keeps every row.
\* "Tdk Terawat" is kept for S = {"Tidak Terawat"}, left out for {"Terawat"}.
C10_MemberOfNonEmptySelection ==
    (AfterChecklist /\ use_lbkb) =>
        /\ \A i \in 1..Len(sheet_lbkb) :
              KeptRow(i) <=>
                  \A c \in selected_cats :
                      \/ nilai_pilihan_map[c] = {}
                      \/ normalize_value_for_compare(sheet_lbkb[i].vals[c])
                            \in NormSet(nilai_pilihan_map[c])
        /\ \A i \in 1..Len(sheet_lbkb) :
              (selected_cats = {CatKondisi}
                    /\ sheet_lbkb[i].vals[CatKondisi] = TxtTdkTerawat) =>
                  /\ nilai_pilihan_map[CatKondisi] = {OptTidakTerawat} => KeptRow(i)
                  /\ nilai_pilihan_map[CatKondisi] = {OptTerawat} => ~KeptRow(i)

\* "Tdk Terawat" has been kept for the selection {"Tidak Terawat"}
C10_Witness ==
    /\ pc = "join"
    /\ selected_cats = {CatKondisi}
    /\ nilai_pilihan_map[CatKondisi] = {OptTidakTerawat}
    /\ sheet_lbkb[1].vals[CatKondisi] = TxtTdkTerawat
    /\ KeptRow(1)

----------------------------------------------------------------------------
(* Claims about several checklist categories.                               *)

\* the survey rows in the Checklist Filter output
KeptIdx == {i \in 1..Len(sheet_lbkb) : KeptRow(i)}

\* the survey rows category c keeps on its own with its selection
KeptAlone(c) ==
    {i \in 1..Len(sheet_lbkb) :
        \/ nilai_pilihan_map[c] = {}
        \/ normalize_value_for_compare(sheet_lbkb[i].vals[c])
              \in NormSet(nilai_pilihan_map[c])}

\* C11: a category that is not selected puts no constraint on the rows, and
\* the rows kept are exactly those every selected category keeps on its own
\* (all rows when no category is selected).
C11_SelectedCategoriesIntersect ==
    (AfterChecklist /\ use_lbkb) =>
        /\ KeptIdx = {i \in 1..Len(sheet_lbkb) :
                         \A c \in selected_cats : i \in KeptAlone(c)}
        /\ selected_cats = {} => KeptIdx = 1..Len(sheet_lbkb)
        /\ \A c \in cat_names \ selected_cats :
              KeptIdx \cap KeptAlone(c) = KeptIdx

\* two categories are selected; the row is kept by the first on its own,
\* not by the second, and is left out
C11_Witness ==
    /\ pc = "join"
    /\ selected_cats = {CatKondisi, CatAngka}
    /\ nilai_pilihan_map[CatKondisi] # {}
    /\ 1 \in KeptAlone(CatKondisi)
    /\ 1 \notin KeptAlone(CatAngka)
    /\ ~KeptRow(1)

----------------------------------------------------------------------------
(* Claims about the Joiner.                                                 *)

AfterJoin == pc \in {"bin", "done", "error"}

\* the customer identifier of a row as the sheet holds it, trimmed
TrimmedConsId(r) == Strip(AsStr(df_cons[r.idx].IDPEL))
TrimmedSurveyId(r) == Strip(AsStr(sheet_lbkb[r.idx].IDPEL))

\* positions <<i, j>> of a Threshold Filter row and a Checklist Filter row
\* with the same trimmed identifier
JoinPairs ==
    {p \in (1..Len(df_filtered)) \X (1..Len(df_lbkb_filtered)) :
        TrimmedConsId(df_filtered[p[1]]) = TrimmedSurveyId(df_lbkb_filtered[p[2]])}

\* place of a pair among the pairs, ordered by consumption row and then by
\* survey row
RankOf(p) ==
    Cardinality({q \in JoinPairs :
                    q[1] < p[1] \/ (q[1] = p[1] /\ q[2] <= p[2])})

\* C12: with no ID text entered the result is the Threshold Filter output
\* in penurunan-only mode, the Checklist Filter output in checklist-only
\* mode, and in combined mode the inner join on the trimmed identifier, each
\* joined row keeping every consumption column and taking the checklist
\* columns of its survey row; in combined mode an empty side gives an empty
\* result, a warning and no failure.
C12_ResultByMode ==
    (AfterJoin /\ id_input = <<>>) =>
        /\ analysis_mode = ModePenurunan => df_merged = df_filtered
        /\ analysis_mode = ModeLbkb => df_merged = df_lbkb_filtered
        /\ analysis_mode = ModeBoth =>
              /\ Len(df_merged) = Cardinality(JoinPairs)
              /\ \A p \in JoinPairs :
                    LET m == df_merged[RankOf(p)]
                        l == df_filtered[p[1]]
                        r == df_lbkb_filtered[p[2]]
                    IN  /\ m.IDPEL = TrimmedConsId(l)
                        /\ m.idx = l.idx
                        /\ m.cells = l.cells
                        /\ m.Rata2_Periode1 = l.Rata2_Periode1
                        /\ m.Rata2_Periode2 = l.Rata2_Periode2
                        /\ m.Selisih_Rata2 = l.Selisih_Rata2
                        /\ m.vals = r.vals
                        /\ DOMAIN m.vals = selected_cats
              /\ df_filtered = <<>> =>
                    df_merged = <<>> /\ WarnNoPenurunan \in messages /\ pc # "error"
              /\ df_lbkb_filtered = <<>> =>
                    df_merged = <<>> /\ WarnNoLbkb \in messages /\ pc # "error"

\* combined mode: a consumption row whose identifier is padded with blanks
\* has been joined with its survey row
C12_Witness ==
    /\ pc = "bin"
    /\ analysis_mode = ModeBoth
    /\ id_input = <<>>
    /\ \E k \in 1..Len(df_merged) :
          /\ df_cons[df_merged[k].idx].IDPEL = IdXPadded
          /\ df_merged[k].IDPEL = IdX

----------------------------------------------------------------------------
(* Claims about the Column Finder.                                          *)

\* header k holds keyword j, both uppercased
HoldsKeyword(k, j) ==
    Contains(Upper(header_lbkb[k].name), Upper(keywords[j]))

\* the headers holding every keyword
AllIdx ==
    {k \in 1..Len(header_lbkb) : \A j \in 1..Len(keywords) : HoldsKeyword(k, j)}

\* how many keywords header k holds
CountAt(k) == Cardinality({j \in 1..Len(keywords) : HoldsKeyword(k, j)})

\* the headers holding the largest number of keywords
MostIdx ==
    {k \in 1..Len(header_lbkb) :
        \A m \in 1..Len(header_lbkb) : CountAt(m) <= CountAt(k)}

----------------------------------------------------------------------------
(* Claims about the sorted column list.                                     *)

\* the classified monthly columns, in header order
Classified == SelectSeq(header, IsRek)

HasDate(col) == parse_date_from_colname(col) # NoDate

\* place of a column in the header
PlaceOf(col) == CHOOSE k \in 1..Len(header) : header[k] = col

\* the list holds every classified column once, the dated ones first in
\* non-decreasing (year, month) order, the undated ones after them in
\* header order
SortedAsClaimed ==
    /\ Len(sorted_cols) = Len(Classified)
    /\ Range(sorted_cols) = Range(Classified)
    /\ \A i, j \in 1..Len(sorted_cols) :
          i < j =>
              /\ ~HasDate(sorted_cols[i]) => ~HasDate(sorted_cols[j])
              /\ (HasDate(sorted_cols[i]) /\ HasDate(sorted_cols[j])) =>
                    DateLeq(parse_date_from_colname(sorted_cols[i]),
                            parse_date_from_colname(sorted_cols[j]))
              /\ (~HasDate(sorted_cols[i]) /\ ~HasDate(sorted_cols[j])) =>
                    PlaceOf(sorted_cols[i]) < PlaceOf(sorted_cols[j])

\* C14 as stated: the sorted column list is a permutation of the classified
\* monthly columns, dated columns first in non-decreasing (year, month)
\* order, undated columns after them in their original order.
C14_SortedPermutation ==
    (pc = "preset" /\ use_penurunan) => SortedAsClaimed

\* C14 amended: this holds when the consumption table has at least one row;
\* for a table without rows the list is empty.
C14_SortedWhenRows ==
    (pc = "preset" /\ use_penurunan) =>
        IF df_cons # <<>> THEN SortedAsClaimed ELSE sorted_cols = <<>>

\* a table with rows whose dated and undated columns have been reordered
C14_Witness ==
    /\ pc = "preset"
    /\ df_cons # <<>>
    /\ sorted_cols # Classified
    /\ \E i, j \in 1..Len(sorted_cols) :
          /\ i < j
          /\ HasDate(sorted_cols[i]) /\ ~HasDate(sorted_cols[j])
          /\ PlaceOf(sorted_cols[j]) < PlaceOf(sorted_cols[i])

----------------------------------------------------------------------------
(* Claims about contiguous YYYYMM headers.                                  *)

\* a header whose only digits are the six of YYYYMM
CompactHeader(px, y, m) == px \o YearText(y) \o MonthText(m, TRUE)

\* C15: a header holding a contiguous YYYYMM and no other digit is parsed
\* to exactly (YYYY, MM), for every month 01 to 12.
C15_CompactParsed ==
    pc = "parsed" =>
        \A px \in HeaderPrefixes, y \in Years, m \in 1..12 :
            colname = CompactHeader(px, y, m) => parsed = <<y, m>>

----------------------------------------------------------------------------
(* Claims about the Distribution Binner.                                    *)

\* the binner has been reached with operator <= and a non-empty result
\* that carries the percentage
BinnedAtMost ==
    /\ pc \in {"done", "error"}
    /\ operator = "<="
    /\ use_penurunan
    /\ df_merged # <<>>

\* x <= k * threshold / 4 and x < k * threshold / 4 for a percentage x
AtMostEdge(x, k) == 4 * x.n * threshold.d <= k * threshold.n * x.d
BelowEdge(x, k) == 4 * x.n * threshold.d < k * threshold.n * x.d

\* C16: for operator <= and every threshold in [0, 100], threshold 0 with a
\* non-empty result included, the binner completes without failure and
\* gives four buckets over the edges 0, quarter, 2*quarter, 3*quarter,
\* threshold, quarter being threshold/4 (1 for threshold 0), none of zero
\* width.
C16_BinnerCompletes ==
    BinnedAtMost =>
        /\ pc = "done"
        /\ Len(quarter_counts) = 4
        /\ LET quarter == IF threshold.n > 0 THEN FDiv(threshold, Frac(4, 1))
                          ELSE Frac(1, 1)
           IN  \A k \in 1..3 :
                  /\ CutPlan[1][k + 1] = FMul(Frac(k, 1), quarter)
                  /\ FLess(CutPlan[1][k], CutPlan[1][k + 1])

\* C17: for operator <= and a threshold T > 0 every percentage of the
\* result, all of them in [0, T], is counted in exactly one of the four
\* buckets, T itself in the last, and the four counts sum to the number of
\* result rows.
C17_EveryValueCountedOnce ==
    (BinnedAtMost /\ threshold.n > 0) =>
        /\ pc = "done"
        /\ Len(df_plot) = Len(df_merged)
        /\ \A k \in 1..Len(df_plot) :
              /\ df_plot[k].Quarter \in 1..4
              /\ df_plot[k].Selisih_Rata2 = threshold => df_plot[k].Quarter = 4
        /\ Len(quarter_counts) = 4
        /\ quarter_counts[1] + quarter_counts[2] + quarter_counts[3]
              + quarter_counts[4] = Len(df_merged)

\* the buckets of a completed cut for operator <= and a threshold T > 0
CutAtMost ==
    /\ pc = "done"
    /\ operator = "<="
    /\ use_penurunan
    /\ threshold.n > 0
    /\ df_plot # <<>>

\* C18 as stated: the buckets are closed at the lower edge, [0, q), [q, 2q),
\* [2q, 3q), [3q, T], so a percentage equal to an interior edge k*q is
\* counted in the bucket whose lower edge it is.
C18_LowerEdgeInclusive ==
    CutAtMost =>
        \A i \in 1..Len(df_plot) : \A k \in 1..3 :
            (AtMostEdge(df_plot[i].Selisih_Rata2, k)
                    /\ ~BelowEdge(df_plot[i].Selisih_Rata2, k))
                => df_plot[i].Quarter = k + 1

\* C18 amended: the buckets are closed at the upper edge, [0, q], (q, 2q],
\* (2q, 3q], (3q, T], so a percentage equal to an interior edge k*q is
\* counted in the bucket whose upper edge it is, and 0 in the first.
C18_UpperEdgeInclusive ==
    CutAtMost =>
        \A i \in 1..Len(df_plot) :
            LET x == df_plot[i].Selisih_Rata2
            IN  /\ \A k \in 1..3 :
                      (AtMostEdge(x, k) /\ ~BelowEdge(x, k))
                          => df_plot[i].Quarter = k
                /\ df_plot[i].Quarter =
                      IF AtMostEdge(x, 1) THEN 1
                      ELSE IF AtMostEdge(x, 2) THEN 2
                      ELSE IF AtMostEdge(x, 3) THEN 3
                      ELSE 4

\* threshold 20: a customer at exactly 10 percent is in the second bucket
C18_Witness ==
    /\ CutAtMost
    /\ threshold = Frac(20, 1)
    /\ \E i \in 1..Len(df_plot) :
          /\ df_plot[i].Selisih_Rata2 = Frac(10, 1)
          /\ df_plot[i].Quarter = 2

----------------------------------------------------------------------------
(* Claims about the validation of the periods and of the columns.           *)

\* the script is past the validation of the periods
PastValidation == pc \notin {"sort", "preset", "validate"}

\* nothing of the Metric Calculator, the Threshold Filter, the checklist
\* side or the joiner has been computed
NothingComputed ==
    /\ df = <<>>
    /\ df_filtered = <<>>
    /\ df_lbkb = <<>>
    /\ df_lbkb_filtered = <<>>
    /\ df_merged = <<>>
    /\ quarter_counts = <<>>

\* C19: the Metric Calculator runs only when both periods are non-empty;
\* whatever presets were clicked and columns selected, a run of a mode with
\* period selectors in which a period is empty ends at the validation with
\* its warning, and no average, threshold filter or join is computed.
C19_MetricsNeedBothPeriods ==
    /\ (pc \in {"metrics", "drop", "filter"} \/ df # <<>> \/ df_filtered # <<>>)
          => (use_penurunan /\ months_set1 # <<>> /\ months_set2 # <<>>)
    /\ (use_penurunan /\ PastValidation
            /\ (months_set1 = <<>> \/ months_set2 = <<>>))
          => /\ pc = "stopped"
             /\ WarnPeriods \in messages
             /\ NothingComputed

\* a preset click on a single sorted column leaves Period 1 empty and the
\* run stops with the warning
C19_Witness ==
    /\ pc = "stopped"
    /\ preset_n # 0
    /\ months_set1 = <<>>
    /\ months_set2 # <<>>
    /\ months_set2 = preset_months_set2
    /\ WarnPeriods \in messages
    /\ NothingComputed

\* the run has stopped with an error shown and nothing produced
HaltedWithError(err) ==
    /\ pc = "stopped"
    /\ err \in messages
    /\ df_merged = <<>>
    /\ quarter_counts = <<>>

\* C20: a missing column is fatal for both tables, in every mode: without
\* IDPEL the first column with "ID" in its name is used; when there is none,
\* or a selected category has no column, an error is shown and the run halts
\* before any result or join.
C20_MissingColumnFatal ==
    /\ (use_penurunan /\ pc \notin {"sort", "preset", "validate", "columns"}
            /\ months_set1 # <<>> /\ months_set2 # <<>>
            /\ IdCandidates(ConsColumns) = <<>>)
          => HaltedWithError(ErrIdCons)
    /\ (use_lbkb /\ pc \in {"join", "bin", "done", "error", "stopped"}
            /\ found_cols_map # <<>>
            /\ \E c \in DOMAIN found_cols_map : found_cols_map[c] = NoColumn)
          => HaltedWithError(ErrCatColumn)
    /\ (use_lbkb /\ pc \in {"join", "bin", "done", "error"}
            /\ df_lbkb # <<>>
            /\ IdCandidates(Names(header_lbkb)) = <<>>)
          => \E err \in messages : HaltedWithError(err)

----------------------------------------------------------------------------
(* Claims about the mode lock.                                              *)

\* locked exactly when the choice is a mode name, the choice None
\* otherwise, and the active mode is the choice while locked
LockConsistent ==
    /\ analysis_mode_locked <=> analysis_mode_choice \in Modes
    /\ ~analysis_mode_locked => analysis_mode_choice = None
    /\ analysis_mode_locked => analysis_mode = analysis_mode_choice

\* a step that changes the active mode of a locked session unlocks it and
\* clears the choice
LockedModeStep ==
    (analysis_mode_locked /\ analysis_mode' # analysis_mode)
        => (~analysis_mode_locked' /\ analysis_mode_choice' = None)

\* C26: over all Confirm Mode and Ubah Mode clicks and reruns the session
\* is locked exactly when the choice is one of the three mode names (None
\* otherwise); while locked the active mode is the confirmed choice and it
\* changes only through Ubah Mode, which unlocks and clears the choice.
C26_ModeLock == [](LockConsistent) /\ [][LockedModeStep]_vars

\* a session locked on the combined mode after a preset click
C26_Witness ==
    /\ analysis_mode_locked
    /\ analysis_mode_choice = ModeBoth
    /\ analysis_mode = ModeBoth
    /\ preset_n # 0

----------------------------------------------------------------------------
(* Claims about the edit path and its audit log.                            *)

\* the session has finished an add-column or add-row handler that reached
\* the remote write
EditDone(s) ==
    /\ sess[s].epc = "done"
    /\ sess[s].aksi \in {"column", "row"}
    /\ sess[s].writes > 0

OkOf(s) == IF sess[s].aksi = "column" THEN OkColumn ELSE OkRow
ErrOf(s) == IF sess[s].aksi = "column" THEN ErrColumn ELSE ErrRow

\* C21: a failed remote write of add-column or add-row is reported, one
\* audit record with status FAILED is attempted and the write is not tried
\* again; a successful write attempts one record with status SUCCESS and
\* none with FAILED; a failure to write the record only adds a warning and
\* leaves the reported outcome as it was.
C21_OneAuditPerEdit ==
    \A s \in Sessions :
        EditDone(s) =>
            /\ sess[s].writes = 1
            /\ IF sess[s].write_ok
               THEN /\ sess[s].logs = <<"SUCCESS">>
                    /\ OkOf(s) \in sess[s].shown
                    /\ ErrOf(s) \notin sess[s].shown
               ELSE /\ sess[s].logs = <<"FAILED">>
                    /\ ErrOf(s) \in sess[s].shown
                    /\ OkOf(s) \notin sess[s].shown
            /\ sess[s].shown \subseteq {OkOf(s), ErrOf(s), WarnHistory}

\* a failed add-column whose audit record could not be written either, and
\* a successful add-row before it
C21_Witness ==
    \E s \in Sessions :
        /\ EditDone(s)
        /\ sess[s].aksi = "column"
        /\ ~sess[s].write_ok
        /\ sess[s].logs = <<"FAILED">>
        /\ sess[s].shown = {ErrColumn, WarnHistory}
        /\ remote[sess[s].target].header = SheetStart.header
        /\ Len(remote[sess[s].target].rows) = 2

\* in a step every header label and every row of the worksheet stays where
\* it was, and a row that is added is the last one and has a value for
\* every column of the header
KeepsSheet(t) ==
    LET old == remote[t]
        new == remote'[t]
    IN  /\ Len(new.header) >= Len(old.header)
        /\ \A k \in 1..Len(old.header) : new.header[k] = old.header[k]
        /\ Len(new.rows) >= Len(old.rows)
        /\ \A k \in 1..Len(old.rows) : new.rows[k] = old.rows[k]
        /\ new.rows # old.rows =>
              /\ Len(new.rows) = Len(old.rows) + 1
              /\ Len(new.rows[Len(new.rows)]) = Len(new.header)

\* C22: the edit path only appends: after an add-column or add-row with any
\* insert position every header label that was there is at its column and
\* every row is unchanged; the new name comes after the labels and the new
\* row after the rows, with as many values as the header has columns.
C22_AppendOnly == [][\A t \in Sheets : KeepsSheet(t)]_vars

\* the audit records among the rows of a history sheet
EntriesOf(rows) == SelectSeq(rows, LAMBDA r : r.kind = "entry")

\* in a step the records of the history sheet stay as they are, and a new
\* one comes last and from a handler that has made its remote write
LogGrows(t) ==
    LET old == EntriesOf(remote[t].hist_rows)
        new == EntriesOf(remote'[t].hist_rows)
    IN  /\ Len(new) >= Len(old)
        /\ SubSeq(new, 1, Len(old)) = old
        /\ new # old =>
              /\ Len(new) = Len(old) + 1
              /\ \E s \in Sessions :
                    /\ sess[s].epc = "log"
                    /\ sess[s].aksi \in {"column", "row"}
                    /\ sess[s].writes = 1
                    /\ sess[s].target = t
                    /\ sess'[s].epc = "done"
                    /\ new[Len(new)].user = s
                    /\ new[Len(new)].status =
                          (IF sess[s].write_ok THEN "SUCCESS" ELSE "FAILED")

\* C25: over every sequence of add-column, add-row, history views and
\* history sheet creations the audit log only grows by appending: a record
\* is appended only by an add-column or add-row that reached the remote
\* write, and no step changes or removes a record.
C25_LogOnlyGrows == [][\A t \in Sheets : LogGrows(t)]_vars

\* a history sheet whose first row is a record, left alone by the next
\* log_history, which appended a second record
C25_Witness ==
    \E t \in Sheets :
        /\ Len(remote[t].hist_rows) = 2
        /\ remote[t].hist_rows[1].kind = "entry"
        /\ remote[t].hist_rows[2].kind = "entry"
        /\ remote[t].hist_rows[2].status = "SUCCESS"

----------------------------------------------------------------------------
(* Claims about concurrent sessions.                                        *)

\* two sessions have each added a column with a different name to sheet t,
\* both read row 1 before either wrote, and w1 wrote before w2
BothReadFirst(t, w1, w2) ==
    /\ w1 # w2
    /\ Len(events) = 4
    /\ \A k \in 1..4 : events[k].t = t
    /\ {events[1].s, events[2].s} = {w1, w2}
    /\ events[1].op = "read" /\ events[2].op = "read"
    /\ events[3] = [s |-> w1, op |-> "write", t |-> t]
    /\ events[4] = [s |-> w2, op |-> "write", t |-> t]
    /\ EditDone(w1) /\ EditDone(w2)
    /\ Strip(sess[w1].new_col_name) # Strip(sess[w2].new_col_name)

\* C24: add-column reads row 1 and overwrites it without a check: when two
\* sessions both read the header before either writes, the later write
\* leaves a row 1 without the other session's column, although both
\* sessions report success and both audit records say SUCCESS.
C24_LostColumn ==
    \A t \in Sheets : \A w1, w2 \in Sessions :
        BothReadFirst(t, w1, w2) =>
            /\ Strip(sess[w1].new_col_name) \notin Range(remote[t].header)
            /\ Strip(sess[w2].new_col_name) \in Range(remote[t].header)
            /\ Len(remote[t].header) = Len(SheetStart.header) + 1
            /\ \A w \in {w1, w2} :
                  /\ OkColumn \in sess[w].shown
                  /\ ErrColumn \notin sess[w].shown
                  /\ sess[w].logs = <<"SUCCESS">>
            /\ \A k \in 1..Len(EntriesOf(remote[t].hist_rows)) :
                  EntriesOf(remote[t].hist_rows)[k].status = "SUCCESS"
            /\ (\A w \in {w1, w2} : WarnHistory \notin sess[w].shown)
                  => {EntriesOf(remote[t].hist_rows)[k].user :
                         k \in 1..Len(EntriesOf(remote[t].hist_rows))} = {w1, w2}

\* both sessions done, both records written, and the first writer's column
\* is gone
C24_Witness ==
    /\ BothReadFirst(SheetCons, "A", "B")
    /\ Len(EntriesOf(remote[SheetCons].hist_rows)) = 2
    /\ <<"N">> \notin Range(remote[SheetCons].header)
    /\ sess["A"].new_col_name = <<"N">>
    /\ OkColumn \in sess["A"].shown

----------------------------------------------------------------------------
(* Claims about the fetch cache.                                            *)

\* no step changes or drops a cached value that has not expired
CacheKept ==
    \A req \in DOMAIN cache :
        Fresh(req) => req \in DOMAIN cache' /\ cache'[req] = cache[req]

\* a step that changes a sheet leaves the whole cache as it is
WriteKeepsCache == remote' # remote => cache' = cache

\* a fetch of a request whose cached value has not expired returns that
\* value, whatever the sheet holds by now
FreshServed ==
    (Len(events') = Len(events) + 1 /\ events'[Len(events')].op = "fetch")
        => \A req \in DOMAIN cache :
              (Fresh(req) /\ fetch_result'.req = req)
                  => /\ ~fetch_result'.raised
                     /\ fetch_result'.value = cache[req].value

\* a fetch of a request whose cached value has expired runs the function
\* again and returns the sheet as it is now
ExpiredRefetched ==
    (Len(events') = Len(events) + 1 /\ events'[Len(events')].op = "fetch")
        => \A req \in DOMAIN cache :
              (~Fresh(req) /\ fetch_result'.req = req /\ ~fetch_result'.raised)
                  => /\ fetch_result'.value = ReadRemote(req)
                     /\ cache'[req] = [value |-> ReadRemote(req), at |-> now]

\* C23: a cached fetch result is invalidated only when its one-hour
\* time-to-live expires: a successful add-column or add-row write to the
\* sheet leaves it in the cache, and the same fetch after the write and
\* within the TTL returns the header and rows from before the write.
C23_OnlyTtlInvalidates ==
    [][CacheKept /\ WriteKeepsCache /\ FreshServed /\ ExpiredRefetched]_vars

\* the header of a sheet was fetched, a column was added to the sheet, and
\* the same fetch less than an hour after the first returned the header
\* without the column
C23_Witness ==
    /\ Len(events) >= 4
    /\ events[1].op = "fetch" /\ events[1].t = SheetCons
    /\ \E k \in 2..(Len(events) - 1) :
          events[k].op = "write" /\ events[k].t = SheetCons
    /\ events[Len(events)].op = "fetch"
    /\ fetch_result =
          [req |-> [fn |-> "header", t |-> SheetCons, usecols |-> AllColumns],
           raised |-> FALSE,
           value |-> [columns |-> SheetStart.header, rows |-> <<>>]]
    /\ <<"M">> \in Range(remote[SheetCons].header)
    /\ now = ttl - 1

====
